---- MODULE Spec2Model ----
(***************************************************************************)
(* Shipping-quote resolution and plan-entitlement gating of the storefront *)
(* builder: storage.ts (calculateShipping and the tables it reads),        *)
(* subscriptionMiddleware.ts (requireActiveSubscription,                   *)
(* checkProductLimit) and the route handlers of registerRoutes that call   *)
(* them.                                                                   *)
(*                                                                         *)
(* Conventions.  A nullable column or an optional JSON field is <<>> when  *)
(* null/undefined and <<v>> when it holds v.  A string is the sequence of  *)
(* its characters.  Money is counted in cents: the JavaScript number 15.5  *)
(* is 1550.                                                                *)
(***************************************************************************)
EXTENDS Integers, Sequences, FiniteSets, TLC

VARIABLES
    shippingConfigs,  \* rows of table shipping_configs
    shippingZones,    \* rows of table shipping_zones
    quote,            \* the last POST /api/shipping/calculate exchange
    plans,            \* rows of table plans
    subscriptions,    \* rows of table subscriptions
    products,         \* number of rows of table products, per store
    req,              \* the POST /api/products requests in flight
    ops,              \* how many product requests and deletions were started
    now,              \* the clock of the server and of the database
    resolved,         \* the last GET /api/subscription exchange
    orders,           \* rows of table orders
    usage,            \* the last usage snapshot and monthly order count
    orderGuard,       \* the last run of checkOrderLimit
    plansCache,       \* plansCache of registerRoutes
    plansCacheTime,   \* plansCacheTime of registerRoutes
    listing,          \* the last GET /api/plans exchange
    setup,            \* the POST /api/admin/setup-plans request in flight
    lastRead,         \* the result of the last getAllPlans that succeeded
    upserts           \* the upsertShippingConfig calls in flight

vars == <<shippingConfigs, shippingZones, quote, plans, subscriptions,
          products, req, ops, now, resolved, orders, usage, orderGuard, plansCache,
          plansCacheTime, listing, setup, lastRead, upserts>>

shipVars == <<shippingConfigs, shippingZones, quote>>
gateVars == <<plans, subscriptions, products, req, ops>>
subVars == <<now, resolved>>
usageVars == <<orders, usage, orderGuard>>
catalogVars == <<plansCache, plansCacheTime, listing, setup, lastRead>>
upsertVars == <<upserts>>
auxVars == <<subVars, usageVars, catalogVars, upsertVars>>

-----------------------------------------------------------------------------
(* Nullable values                                                         *)

Null == <<>>
Some(v) == <<v>>
IsNull(x) == x = <<>>
Val(x) == x[1]

-----------------------------------------------------------------------------
(* Strings                                                                 *)

Digits == {"0", "1", "2", "3", "4", "5", "6", "7", "8", "9"}

DigitVal(c) ==
    CASE c = "0" -> 0 [] c = "1" -> 1 [] c = "2" -> 2 [] c = "3" -> 3
      [] c = "4" -> 4 [] c = "5" -> 5 [] c = "6" -> 6 [] c = "7" -> 7
      [] c = "8" -> 8 [] c = "9" -> 9

DigitChar(n) ==
    CASE n = 0 -> "0" [] n = 1 -> "1" [] n = 2 -> "2" [] n = 3 -> "3"
      [] n = 4 -> "4" [] n = 5 -> "5" [] n = 6 -> "6" [] n = 7 -> "7"
      [] n = 8 -> "8" [] n = 9 -> "9"

\* UTF-16 code unit of the characters the model uses.
CharCode(c) ==
    IF c \in Digits THEN 48 + DigitVal(c)
    ELSE CASE c = "-" -> 45 [] c = "." -> 46 [] c = " " -> 32 [] OTHER -> 97

\* s.replace(/\D/g, '')
IsDigit(c) == c \in Digits
StripNonDigits(s) == SelectSeq(s, IsDigit)

\* JavaScript a < b on strings: code unit by code unit, a proper prefix is
\* smaller.
RECURSIVE StrLess(_, _)
StrLess(a, b) ==
    IF b = <<>> THEN FALSE
    ELSE IF a = <<>> THEN TRUE
    ELSE IF CharCode(a[1]) < CharCode(b[1]) THEN TRUE
    ELSE IF CharCode(a[1]) > CharCode(b[1]) THEN FALSE
    ELSE StrLess(Tail(a), Tail(b))

StrGeq(a, b) == ~StrLess(a, b)
StrLeq(a, b) == ~StrLess(b, a)

RECURSIVE DigitsToNat(_)
DigitsToNat(s) ==
    IF s = <<>> THEN 0
    ELSE DigitsToNat(SubSeq(s, 1, Len(s) - 1)) * 10 + DigitVal(s[Len(s)])

RECURSIVE NatToDigits(_)
NatToDigits(n) ==
    IF n < 10 THEN <<DigitChar(n)>>
    ELSE Append(NatToDigits(n \div 10), DigitChar(n % 10))

DotIndex(s) ==
    IF \E i \in 1..Len(s) : s[i] = "."
    THEN CHOOSE i \in 1..Len(s) : s[i] = "." /\ \A j \in 1..(i - 1) : s[j] # "."
    ELSE Len(s) + 1

\* parseFloat on the text form of a decimal(10,2) column ("15.00", "-5.00",
\* "0"), in cents.
parseFloat(s) ==
    LET neg == Len(s) > 0 /\ s[1] = "-"
        body == IF neg THEN Tail(s) ELSE s
        dot == DotIndex(body)
        whole == DigitsToNat(SubSeq(body, 1, dot - 1))
        frac == SubSeq(body, dot + 1, Len(body))
        tenths == IF Len(frac) >= 1 THEN DigitVal(frac[1]) ELSE 0
        hundredths == IF Len(frac) >= 2 THEN DigitVal(frac[2]) ELSE 0
        cents == whole * 100 + tenths * 10 + hundredths
    IN  IF neg THEN 0 - cents ELSE cents

\* Number.prototype.toString of a non-negative amount of cents: 1500 is
\* "15", 1550 is "15.5", 1999 is "19.99".
numberToString(n) ==
    LET whole == NatToDigits(n \div 100)
        f == n % 100
    IN  IF f = 0 THEN whole
        ELSE IF f % 10 = 0 THEN whole \o <<".", DigitChar(f \div 10)>>
        ELSE whole \o <<".", DigitChar(f \div 10), DigitChar(f % 10)>>

\* Truthiness of an optional string: neither null/undefined nor "".
Truthy(x) == ~IsNull(x) /\ Val(x) # <<>>

-----------------------------------------------------------------------------
(* Shipping: tables and inputs                                             *)

StoreIds == {"s1", "s2"}

\* The largest number of shipping_zones rows the model holds at once.
MaxZones == 2

Zip_01000000 == <<"0", "1", "0", "0", "0", "0", "0", "0">>
Zip_05999999 == <<"0", "5", "9", "9", "9", "9", "9", "9">>
Zip_06000000 == <<"0", "6", "0", "0", "0", "0", "0", "0">>
Zip_09999999 == <<"0", "9", "9", "9", "9", "9", "9", "9">>
Zip_01310100 == <<"0", "1", "3", "1", "0", "1", "0", "0">>
Zip_06000_000 == <<"0", "6", "0", "0", "0", "-", "0", "0", "0">>
Zip_99999999 == <<"9", "9", "9", "9", "9", "9", "9", "9">>
Zip_01000_00 == <<"0", "1", "0", "0", "0", "-", "0", "0">>
Zip_05999_99 == <<"0", "5", "9", "9", "9", "-", "9", "9">>

Dec_0 == <<"0", ".", "0", "0">>
Dec_10 == <<"1", "0", ".", "0", "0">>
Dec_15 == <<"1", "5", ".", "0", "0">>
Dec_20 == <<"2", "0", ".", "0", "0">>
Dec_30 == <<"3", "0", ".", "0", "0">>
Dec_40 == <<"4", "0", ".", "0", "0">>
Dec_200 == <<"2", "0", "0", ".", "0", "0">>

\* Rows POST /api/shipping/zones can insert (the id stands for the uuid
\* the database draws).  Names repeat, ranges overlap, one row is inactive,
\* one has estimatedDays 0, one has it null, one has bounds with a
\* non-digit, one has bounds shorter than a zip code, one belongs to the
\* other store.
ZoneRows ==
    { [id |-> "z1", storeId |-> "s1", name |-> "A",
       zipCodeStart |-> Zip_01000000, zipCodeEnd |-> Zip_05999999,
       shippingCost |-> Dec_10, estimatedDays |-> Some(3), isActive |-> Some(TRUE)],
      [id |-> "z2", storeId |-> "s1", name |-> "B",
       zipCodeStart |-> Zip_06000000, zipCodeEnd |-> Zip_09999999,
       shippingCost |-> Dec_20, estimatedDays |-> Some(5), isActive |-> Some(TRUE)],
      [id |-> "z3", storeId |-> "s1", name |-> "A",
       zipCodeStart |-> Zip_01000000, zipCodeEnd |-> Zip_09999999,
       shippingCost |-> Dec_0, estimatedDays |-> Some(0), isActive |-> Some(TRUE)],
      [id |-> "z4", storeId |-> "s1", name |-> "B",
       zipCodeStart |-> Zip_01000_00, zipCodeEnd |-> Zip_05999_99,
       shippingCost |-> Dec_30, estimatedDays |-> Null, isActive |-> Some(TRUE)],
      [id |-> "z5", storeId |-> "s1", name |-> "A",
       zipCodeStart |-> Zip_01000000, zipCodeEnd |-> Zip_09999999,
       shippingCost |-> Dec_40, estimatedDays |-> Some(2), isActive |-> Some(FALSE)],
      [id |-> "z6", storeId |-> "s1", name |-> "C",
       zipCodeStart |-> <<"1">>, zipCodeEnd |-> <<"5">>,
       shippingCost |-> Dec_15, estimatedDays |-> Some(1), isActive |-> Some(TRUE)],
      [id |-> "z7", storeId |-> "s2", name |-> "A",
       zipCodeStart |-> Zip_01000000, zipCodeEnd |-> Zip_09999999,
       shippingCost |-> Dec_40, estimatedDays |-> Some(9), isActive |-> Some(TRUE)] }

\* Bodies POST /api/shipping/config can store, per store.
ConfigInputs ==
    { [storeId |-> "s1", freeShippingThreshold |-> Null, defaultShippingCost |-> Null],
      [storeId |-> "s1", freeShippingThreshold |-> Null, defaultShippingCost |-> Some(Dec_15)],
      [storeId |-> "s1", freeShippingThreshold |-> Some(Dec_0), defaultShippingCost |-> Some(Dec_15)],
      [storeId |-> "s1", freeShippingThreshold |-> Some(Dec_200), defaultShippingCost |-> Some(Dec_15)],
      [storeId |-> "s1", freeShippingThreshold |-> Some(Dec_200), defaultShippingCost |-> Some(Dec_0)],
      [storeId |-> "s2", freeShippingThreshold |-> Some(Dec_10), defaultShippingCost |-> Some(Dec_20)] }

\* req.body.storeSlug, req.body.zipCode and req.body.orderTotal (cents) of
\* POST /api/shipping/calculate.
SlugInputs == {Some("s1"), Some("s2"), Some("nostore")}
ZipInputs == {Some(Zip_01310100), Some(Zip_06000_000), Some(Zip_99999999),
              Some(<<"2", "0">>), Some(<<>>)}
TotalInputs == {Null, Some(19999), Some(20000)}

\* ORDER BY name: the rank of each name in the collation.
NameRank(n) == CASE n = "A" -> 1 [] n = "B" -> 2 [] n = "C" -> 3

-----------------------------------------------------------------------------
(* Shipping: storage operations                                            *)

\* getShippingConfig: the row of the store, LIMIT 1.
getShippingConfig(storeId) ==
    LET rows == {c \in shippingConfigs : c.storeId = storeId}
    IN  IF rows = {} THEN Null ELSE Some(CHOOSE c \in rows : TRUE)

\* The orders in which a SELECT ... ORDER BY name may return a set of rows:
\* rows of equal name come in any order.
OrderedByName(rows) ==
    { s \in [1..Cardinality(rows) -> rows] :
        /\ \A i, j \in 1..Cardinality(rows) : i # j => s[i] # s[j]
        /\ \A i, j \in 1..Cardinality(rows) :
              i < j => NameRank(s[i].name) <= NameRank(s[j].name) }

\* getShippingZones: the store's rows with is_active = true, by name.
getShippingZones(storeId) ==
    OrderedByName({z \in shippingZones :
                      z.storeId = storeId /\ z.isActive = Some(TRUE)})

\* Mutant: the lower bound of the zone is left out of its range.
ZoneHolds_exclusive(zone, cleanZip) ==
    LET zipStart == StripNonDigits(zone.zipCodeStart)
        zipEnd == StripNonDigits(zone.zipCodeEnd)
    IN  StrLess(zipStart, cleanZip) /\ StrLeq(cleanZip, zipEnd)

\* The for loop of calculateShipping: the index of the first zone whose
\* cleaned bounds hold the cleaned zip, 0 when there is none.
ZoneHolds(zone, cleanZip) ==
    LET zipStart == StripNonDigits(zone.zipCodeStart)
        zipEnd == StripNonDigits(zone.zipCodeEnd)
    IN  StrGeq(cleanZip, zipStart) /\ StrLeq(cleanZip, zipEnd)

\* Mutant: the last zone holding the zip instead of the first.
FirstMatch_last(zones, cleanZip) ==
    IF \E i \in 1..Len(zones) : ZoneHolds(zones[i], cleanZip)
    THEN CHOOSE i \in 1..Len(zones) :
            /\ ZoneHolds(zones[i], cleanZip)
            /\ \A j \in (i + 1)..Len(zones) : ~ZoneHolds(zones[j], cleanZip)
    ELSE 0

FirstMatch(zones, cleanZip) ==
    IF \E i \in 1..Len(zones) : ZoneHolds(zones[i], cleanZip)
    THEN CHOOSE i \in 1..Len(zones) :
            /\ ZoneHolds(zones[i], cleanZip)
            /\ \A j \in 1..(i - 1) : ~ZoneHolds(zones[j], cleanZip)
    ELSE 0

\* The estimated days the resolver answers when a zone gives none.
DefaultDays == 7

\* zone.estimatedDays || 7
DaysOrDefault(estimatedDays) ==
    IF IsNull(estimatedDays) \/ Val(estimatedDays) = 0
    THEN DefaultDays
    ELSE Val(estimatedDays)

\* The free-shipping test of calculateShipping.
ThresholdApplies(config, orderTotal) ==
    /\ ~IsNull(config)
    /\ Truthy(Val(config).freeShippingThreshold)
    /\ parseFloat(Val(Val(config).freeShippingThreshold)) > 0
    /\ orderTotal >= parseFloat(Val(Val(config).freeShippingThreshold))

\* Mutant: the zones are searched before the free-shipping threshold is
\* looked at.
calculateShipping_zoneFirst(config, zones, zipCode, orderTotal) ==
    LET cleanZip == StripNonDigits(zipCode)
        m == FirstMatch(zones, cleanZip)
        defaultCost ==
            IF ~IsNull(config) /\ Truthy(Val(config).defaultShippingCost)
            THEN parseFloat(Val(Val(config).defaultShippingCost))
            ELSE 0
    IN  IF m # 0
        THEN [cost |-> parseFloat(zones[m].shippingCost),
              estimatedDays |-> DaysOrDefault(zones[m].estimatedDays)]
        ELSE IF ThresholdApplies(config, orderTotal)
        THEN [cost |-> 0, estimatedDays |-> DefaultDays]
        ELSE [cost |-> defaultCost, estimatedDays |-> DefaultDays]

\* Mutant: no zone found answers cost 0 and forgets the store's default.
calculateShipping_noDefault(config, zones, zipCode, orderTotal) ==
    LET cleanZip == StripNonDigits(zipCode)
        m == FirstMatch(zones, cleanZip)
    IN  IF ThresholdApplies(config, orderTotal)
        THEN [cost |-> 0, estimatedDays |-> DefaultDays]
        ELSE IF m # 0
        THEN [cost |-> parseFloat(zones[m].shippingCost),
              estimatedDays |-> DaysOrDefault(zones[m].estimatedDays)]
        ELSE [cost |-> 0, estimatedDays |-> DefaultDays]

\* calculateShipping, given the rows its two queries returned.
calculateShipping(config, zones, zipCode, orderTotal) ==
    LET cleanZip == StripNonDigits(zipCode)
        m == FirstMatch(zones, cleanZip)
        defaultCost ==
            IF ~IsNull(config) /\ Truthy(Val(config).defaultShippingCost)
            THEN parseFloat(Val(Val(config).defaultShippingCost))
            ELSE 0
    IN  IF ThresholdApplies(config, orderTotal)
        THEN [cost |-> 0, estimatedDays |-> DefaultDays]
        ELSE IF m # 0
        THEN [cost |-> parseFloat(zones[m].shippingCost),
              estimatedDays |-> DaysOrDefault(zones[m].estimatedDays)]
        ELSE [cost |-> defaultCost, estimatedDays |-> DefaultDays]


-----------------------------------------------------------------------------
(* Shipping: actions                                                       *)

\* quote holds the last exchange for as long as the tables are the ones
\* it was computed from.
NoQuote == [status |-> 0]

\* upsertShippingConfig: update the store's row when there is one, insert
\* otherwise.  store_id is unique, so the store's id stands for the uuid
\* the database draws for the row.
UpsertShippingConfig(configData) ==
    LET existing == getShippingConfig(configData.storeId)
    IN  /\ shippingConfigs' =
              IF ~IsNull(existing)
              THEN (shippingConfigs \ {Val(existing)}) \cup
                   {[Val(existing) EXCEPT
                        !.freeShippingThreshold = configData.freeShippingThreshold,
                        !.defaultShippingCost = configData.defaultShippingCost]}
              ELSE shippingConfigs \cup
                   {[id |-> configData.storeId,
                     storeId |-> configData.storeId,
                     freeShippingThreshold |-> configData.freeShippingThreshold,
                     defaultShippingCost |-> configData.defaultShippingCost]}
        /\ quote' = NoQuote
        /\ UNCHANGED <<shippingZones, gateVars, auxVars>>

\* createShippingZone
CreateShippingZone(zoneData) ==
    /\ Cardinality(shippingZones) < MaxZones
    /\ zoneData \notin shippingZones
    /\ shippingZones' = shippingZones \cup {zoneData}
    /\ quote' = NoQuote
    /\ UNCHANGED <<shippingConfigs, gateVars, auxVars>>

\* deleteShippingZone
DeleteShippingZone(id) ==
    /\ \E z \in shippingZones : z.id = id
    /\ shippingZones' = {z \in shippingZones : z.id # id}
    /\ quote' = NoQuote
    /\ UNCHANGED <<shippingConfigs, gateVars, auxVars>>

\* Mutant: a store without a shipping_configs row is answered 404.
ShippingResponse_configRequired(storeSlug, zipCode, orderTotal, zones) ==
    IF IsNull(storeSlug) \/ ~Truthy(zipCode)
    THEN [status |-> 400, storeSlug |-> storeSlug, zipCode |-> zipCode,
          orderTotal |-> orderTotal]
    ELSE IF Val(storeSlug) \notin StoreIds \/ IsNull(getShippingConfig(Val(storeSlug)))
    THEN [status |-> 404, storeSlug |-> storeSlug, zipCode |-> zipCode,
          orderTotal |-> orderTotal]
    ELSE LET config == getShippingConfig(Val(storeSlug))
             total == IF IsNull(orderTotal) THEN 0 ELSE Val(orderTotal)
             shipping == calculateShipping(config, zones, Val(zipCode), total)
         IN  [status |-> 200, storeSlug |-> storeSlug, zipCode |-> zipCode,
              orderTotal |-> orderTotal, config |-> config, zones |-> zones,
              shipping |-> shipping,
              body |-> [shippingCost |-> numberToString(shipping.cost),
                        estimatedDays |-> shipping.estimatedDays,
                        isFree |-> (shipping.cost = 0)]]

\* POST /api/shipping/calculate.  zones is the order in which
\* getShippingZones returned the store's active zones.
ShippingResponse(storeSlug, zipCode, orderTotal, zones) ==
    IF IsNull(storeSlug) \/ ~Truthy(zipCode)
    THEN [status |-> 400, storeSlug |-> storeSlug, zipCode |-> zipCode,
          orderTotal |-> orderTotal]
    ELSE IF Val(storeSlug) \notin StoreIds
    THEN [status |-> 404, storeSlug |-> storeSlug, zipCode |-> zipCode,
          orderTotal |-> orderTotal]
    ELSE LET config == getShippingConfig(Val(storeSlug))
             total == IF IsNull(orderTotal) THEN 0 ELSE Val(orderTotal)
             shipping == calculateShipping(config, zones, Val(zipCode), total)
         IN  [status |-> 200, storeSlug |-> storeSlug, zipCode |-> zipCode,
              orderTotal |-> orderTotal, config |-> config, zones |-> zones,
              shipping |-> shipping,
              body |-> [shippingCost |-> numberToString(shipping.cost),
                        estimatedDays |-> shipping.estimatedDays,
                        isFree |-> (shipping.cost = 0)]]

CalculateShippingRoute(storeSlug, zipCode, orderTotal) ==
    /\ \E zones \in (IF ~IsNull(storeSlug) /\ Val(storeSlug) \in StoreIds
                     THEN getShippingZones(Val(storeSlug)) ELSE {<<>>}) :
          quote' = ShippingResponse(storeSlug, zipCode, orderTotal, zones)
    /\ UNCHANGED <<shippingConfigs, shippingZones, gateVars, auxVars>>


-----------------------------------------------------------------------------
(* Plans, subscriptions, stores, products: tables and inputs               *)

UserIds == {"u1", "u2"}

\* Table stores: u1 owns two stores, u2 owns none, u3 owns one.  u3 and
\* its store take part only in the runs of the single-store user.
StoreRows ==
    { [id |-> "s1", userId |-> "u1"], [id |-> "s2", userId |-> "u1"],
      [id |-> "s3", userId |-> "u3"] }

\* The numbers of products the stores hold when the model starts: the
\* first store one short of the limit of the free or of the basic plan, the
\* second at the free plan's limit.
InitProducts ==
    { [s \in StoreIds |-> IF s = "s1" THEN a ELSE 5] : a \in {4, 49} }

\* The largest number of product requests and deletions in a run.
MaxOps == 3

\* Two product requests are handled at the same time; a slot takes the next
\* request once its request is answered.
Req == {1, 2}

Dec_29_90 == <<"2", "9", ".", "9", "0">>
Dec_79_90 == <<"7", "9", ".", "9", "0">>
Dec_199_90 == <<"1", "9", "9", ".", "9", "0">>

\* The id column of plans is a uuid the database draws
\* (gen_random_uuid()); the four rows are deleted and inserted together and
\* no row outlives a delete, so one id per slug stands for it.
PlanId(slug) ==
    CASE slug = "gratis" -> "uuid-gratis"
      [] slug = "basico" -> "uuid-basico"
      [] slug = "profissional" -> "uuid-profissional"
      [] slug = "enterprise" -> "uuid-enterprise"

\* plansToInsert of POST /api/admin/setup-plans, as rows of the table.
plansToInsert ==
    { [id |-> PlanId("gratis"), name |-> "Gratis", slug |-> "gratis", price |-> Dec_0,
       maxProducts |-> Some(5), maxOrders |-> Some(10), isActive |-> Some(TRUE)],
      [id |-> PlanId("basico"), name |-> "Basico", slug |-> "basico", price |-> Dec_29_90,
       maxProducts |-> Some(50), maxOrders |-> Some(100), isActive |-> Some(TRUE)],
      [id |-> PlanId("profissional"), name |-> "Profissional", slug |-> "profissional",
       price |-> Dec_79_90,
       maxProducts |-> Some(200), maxOrders |-> Null, isActive |-> Some(TRUE)],
      [id |-> PlanId("enterprise"), name |-> "Enterprise", slug |-> "enterprise",
       price |-> Dec_199_90,
       maxProducts |-> Null, maxOrders |-> Null, isActive |-> Some(TRUE)] }

PlanIds == {p.id : p \in plansToInsert}

\* req.body of POST /api/products: the optional storeId, and whether the
\* rest passes insertProductSchema.parse.
ProductBodies ==
    { [storeId |-> Null, valid |-> TRUE], [storeId |-> Null, valid |-> FALSE],
      [storeId |-> Some("s1"), valid |-> TRUE],
      [storeId |-> Some("s2"), valid |-> TRUE],
      [storeId |-> Some("s9"), valid |-> TRUE] }

\* The subscriptions table when the model starts: empty, or one active row
\* of u1 (created by POST /api/subscription/create-checkout or by the
\* Stripe webhook) on the free, the basic or the unlimited plan.
SubscriptionRow(userId, planId) ==
    [id |-> 1, userId |-> userId, planId |-> planId, status |-> "active",
     cancelAtPeriodEnd |-> FALSE, createdAt |-> 1]

InitSubscriptions ==
    { {} } \cup
    { {SubscriptionRow("u1", PlanId(p))} : p \in {"gratis", "basico", "enterprise"} }

RedirectTo == "/dashboard/subscription"

-----------------------------------------------------------------------------
(* Plans, subscriptions, stores, products: storage operations              *)

\* getStoreByUserId: SELECT ... WHERE user_id = $1 with no ORDER BY, first
\* row taken: any of the user's stores, none when the user has no store.
getStoreByUserId(userId) ==
    LET rows == {s \in StoreRows : s.userId = userId}
    IN  IF rows = {} THEN {Null} ELSE {Some(s) : s \in rows}

\* getStoreById
getStoreById(id) ==
    LET rows == {s \in StoreRows : s.id = id}
    IN  IF rows = {} THEN Null ELSE Some(CHOOSE s \in rows : TRUE)

\* getPlanBySlug (slug is unique)
getPlanBySlug(slug) ==
    LET rows == {p \in plans : p.slug = slug}
    IN  IF rows = {} THEN Null ELSE Some(CHOOSE p \in rows : TRUE)

\* getPlanById
getPlanById(id) ==
    LET rows == {p \in plans : p.id = id}
    IN  IF rows = {} THEN Null ELSE Some(CHOOSE p \in rows : TRUE)

\* The result of getSubscriptionByUserId for the subscriptions row x:
\* { ...result.subscription, plan: result.plan }, undefined when the left
\* join found no plan.
JoinPlan(x) ==
    IF IsNull(getPlanById(x.planId)) THEN Null
    ELSE Some([id |-> x.id, userId |-> x.userId, planId |-> x.planId,
               status |-> x.status,
               cancelAtPeriodEnd |-> x.cancelAtPeriodEnd,
               createdAt |-> x.createdAt,
               plan |-> getPlanById(x.planId)])

\* Mutant: the latest of the user's active rows.
getSubscriptionByUserId_active(userId) ==
    LET rows == {x \in subscriptions : x.userId = userId /\ x.status = "active"}
        latest == {x \in rows : \A y \in rows : y.createdAt <= x.createdAt}
    IN  IF rows = {} THEN {Null} ELSE {JoinPlan(x) : x \in latest}

\* getSubscriptionByUserId: the user's rows LEFT JOIN plans, ORDER BY
\* created_at DESC LIMIT 1; undefined when there is no row or the joined
\* plan is missing.  Rows of equal created_at come in any order, so the
\* result is one of a set.
getSubscriptionByUserId(userId) ==
    LET rows == {x \in subscriptions : x.userId = userId}
        latest == {x \in rows : \A y \in rows : y.createdAt <= x.createdAt}
    IN  IF rows = {} THEN {Null} ELSE {JoinPlan(x) : x \in latest}

\* getProductsByStoreId(...).length
productCount(storeId) == products[storeId]


-----------------------------------------------------------------------------
(* The guards of POST /api/products                                        *)

CallNext(subscription) == [kind |-> "next", subscription |-> subscription]
Respond(status, body) == [kind |-> "respond", status |-> status, body |-> body]

\* Mutant: a user without a subscriptions row is refused like one whose
\* subscription is not active.
requireActiveSubscription_rowRequired(userId, subscription, freePlan) ==
    IF IsNull(userId)
    THEN Respond(401, [message |-> [template |-> "unauthenticated"]])
    ELSE IF IsNull(subscription) \/ Val(subscription).status # "active"
    THEN Respond(403, [message |-> [template |-> "inactive"],
                       redirectTo |-> RedirectTo])
    ELSE CallNext(Val(subscription))

\* Mutant: a subscription that is not active passes like an active one.
requireActiveSubscription_anyStatus(userId, subscription, freePlan) ==
    IF IsNull(userId)
    THEN Respond(401, [message |-> [template |-> "unauthenticated"]])
    ELSE IF IsNull(subscription)
    THEN CallNext([status |-> "active", plan |-> freePlan, isFree |-> TRUE])
    ELSE CallNext(Val(subscription))

\* requireActiveSubscription, given what getSubscriptionByUserId and
\* getPlanBySlug("gratis") returned: next() with req.subscription set, or a
\* response.
requireActiveSubscription(userId, subscription, freePlan) ==
    IF IsNull(userId)
    THEN Respond(401, [message |-> [template |-> "unauthenticated"]])
    ELSE IF IsNull(subscription)
    THEN CallNext([status |-> "active", plan |-> freePlan, isFree |-> TRUE])
    ELSE IF Val(subscription).status # "active"
    THEN Respond(403, [message |-> [template |-> "inactive"],
                       redirectTo |-> RedirectTo])
    ELSE CallNext(Val(subscription))

\* plan?.maxProducts !== null && plan?.maxProducts !== undefined: only
\* then does checkProductLimit count the store's products.
HasProductLimit(plan) ==
    /\ ~IsNull(plan)
    /\ ~IsNull(Val(plan).maxProducts)

\* Mutant: only a store above the limit is refused.
LimitReached_over(plan, current) ==
    /\ HasProductLimit(plan)
    /\ current > Val(Val(plan).maxProducts)

\* The test of checkProductLimit on the plan of req.subscription: the plan
\* has a limit and the store holds at least that many products.
LimitReached(plan, current) ==
    /\ HasProductLimit(plan)
    /\ current >= Val(Val(plan).maxProducts)

\* Mutant: the refusal on the limit carries the message alone.
checkProductLimit_bare(subscription, store, current) ==
    IF IsNull(store)
    THEN Respond(404, [message |-> [template |-> "store-not-found"]])
    ELSE IF LimitReached(subscription.plan, current)
    THEN Respond(403,
           [message |-> [template |-> "limit-reached",
                         maxProducts |-> Val(Val(subscription.plan).maxProducts),
                         planName |-> Val(subscription.plan).name]])
    ELSE CallNext(subscription)

\* Mutant: a request without a plan is refused.
checkProductLimit_planRequired(subscription, store, current) ==
    IF IsNull(store)
    THEN Respond(404, [message |-> [template |-> "store-not-found"]])
    ELSE IF IsNull(subscription.plan)
    THEN Respond(403, [message |-> [template |-> "no-plan"],
                       limit |-> 0, current |-> current,
                       upgradeRequired |-> TRUE, redirectTo |-> RedirectTo])
    ELSE IF LimitReached(subscription.plan, current)
    THEN Respond(403,
           [message |-> [template |-> "limit-reached",
                         maxProducts |-> Val(Val(subscription.plan).maxProducts),
                         planName |-> Val(subscription.plan).name],
            limit |-> Val(Val(subscription.plan).maxProducts),
            current |-> current,
            upgradeRequired |-> TRUE,
            redirectTo |-> RedirectTo])
    ELSE CallNext(subscription)

\* checkProductLimit, given req.subscription, the store getStoreByUserId
\* returned and the number of products of that store.
checkProductLimit(subscription, store, current) ==
    IF IsNull(store)
    THEN Respond(404, [message |-> [template |-> "store-not-found"]])
    ELSE IF LimitReached(subscription.plan, current)
    THEN Respond(403,
           [message |-> [template |-> "limit-reached",
                         maxProducts |-> Val(Val(subscription.plan).maxProducts),
                         planName |-> Val(subscription.plan).name],
            limit |-> Val(Val(subscription.plan).maxProducts),
            current |-> current,
            upgradeRequired |-> TRUE,
            redirectTo |-> RedirectTo])
    ELSE CallNext(subscription)

\* The handler of POST /api/products up to the insert: the store the
\* product goes to, or a response.  store is what getStoreByUserId
\* returned.
productTarget(userId, body, store) ==
    LET target ==
            IF ~IsNull(body.storeId)
            THEN LET targetStore == getStoreById(Val(body.storeId))
                 IN  IF IsNull(targetStore) \/ Val(targetStore).userId # userId
                     THEN Respond(403, [message |-> [template |-> "no-permission"]])
                     ELSE [kind |-> "insert", storeId |-> Val(body.storeId)]
            ELSE IF IsNull(store)
            THEN Respond(404, [message |-> [template |-> "store-not-found"]])
            ELSE [kind |-> "insert", storeId |-> Val(store).id]
    IN  IF target.kind = "insert" /\ ~body.valid
        THEN Respond(400, [message |-> [template |-> "zod-error"]])
        ELSE target

\* Mutant: a subscription that is not active is answered like no
\* subscription at all.
getSubscriptionResponse_activeOnly(subscription, freePlan) ==
    IF IsNull(subscription) \/ Val(subscription).status # "active"
    THEN [status |-> "active", plan |-> freePlan, isFree |-> TRUE]
    ELSE Val(subscription)

\* GET /api/subscription, given what getSubscriptionByUserId and
\* getPlanBySlug("gratis") returned: the body of the 200 response.
getSubscriptionResponse(subscription, freePlan) ==
    IF IsNull(subscription)
    THEN [status |-> "active", plan |-> freePlan, isFree |-> TRUE]
    ELSE Val(subscription)

\* Mutant: the percentage stops at 100.
Percentage_clamped(current, limit) ==
    IF IsNull(limit) \/ Val(limit) = 0
    THEN [num |-> 0, den |-> 1]
    ELSE IF current > Val(limit)
    THEN [num |-> 100, den |-> 1]
    ELSE [num |-> current * 100, den |-> Val(limit)]

\* products.length / plan.maxProducts * 100 as the fraction num / den; 0
\* when the limit is null, undefined or 0.
Percentage(current, limit) ==
    IF IsNull(limit) \/ Val(limit) = 0
    THEN [num |-> 0, den |-> 1]
    ELSE [num |-> current * 100, den |-> Val(limit)]

\* plan?.field: undefined when there is no plan.
PlanField(plan, field) == IF IsNull(plan) THEN Null ELSE Some(Val(plan)[field])
PlanLimit(plan, field) == IF IsNull(plan) THEN Null ELSE Val(plan)[field]

\* getPlanUsage, given the store and the subscription its queries returned,
\* the free plan, the number of products of the store and the number of its
\* orders created this month; null for a user without store.
getPlanUsage(store, subscription, freePlan, productsLength, ordersThisMonth) ==
    IF IsNull(store) THEN Null
    ELSE LET plan == IF ~IsNull(subscription) THEN Val(subscription).plan
                     ELSE freePlan
         IN  Some([plan |-> [name |-> PlanField(plan, "name"),
                             slug |-> PlanField(plan, "slug"),
                             maxProducts |-> PlanLimit(plan, "maxProducts"),
                             maxOrders |-> PlanLimit(plan, "maxOrders")],
                   usage |->
                     [products |->
                        [current |-> productsLength,
                         limit |-> PlanLimit(plan, "maxProducts"),
                         percentage |-> Percentage(productsLength,
                                                   PlanLimit(plan, "maxProducts"))],
                      orders |->
                        [current |-> ordersThisMonth,
                         limit |-> PlanLimit(plan, "maxOrders"),
                         percentage |-> Percentage(ordersThisMonth,
                                                   PlanLimit(plan, "maxOrders"))]]])

-----------------------------------------------------------------------------
(* POST /api/products: one request, step by step                           *)

IdleReq ==
    [pc |-> "idle", userId |-> Null, subscription |-> Null, trail |-> <<>>,
     store |-> Null, current |-> Null, response |-> Null, by |-> "none",
     inserted |-> Null]

\* The request is answered: what is left of it is the response, who sent
\* it, the stages it went through and the store it inserted into.
Finish(r, who, status, body) ==
    [IdleReq EXCEPT !.pc = "done", !.by = who, !.trail = req[r].trail,
                    !.response = Some([status |-> status, body |-> body])]

\* A request arrives (isAuthenticated has put the user in req.user).  The
\* lower slot is used first.
StartRequest(r, userId) ==
    /\ req[r].pc \in {"idle", "done"}
    /\ \A q \in Req : q < r => req[q].pc \notin {"idle", "done"}
    /\ ops < MaxOps
    /\ ops' = ops + 1
    /\ req' = [req EXCEPT ![r] = [IdleReq EXCEPT !.pc = "start",
                                     !.userId = Some(userId),
                                     !.trail = <<"start">>]]
    /\ UNCHANGED <<plans, subscriptions, products, shipVars, auxVars>>

\* requireActiveSubscription runs: both queries, then next() or a response;
\* 500 when a query throws.  The two reads are one step: no operation
\* changes the user's rows and the plans between them in a way a single
\* read could not also see.
RequireActiveSubscription(r, throws) ==
    /\ req[r].pc = "start"
    /\ IF throws
       THEN req' = [req EXCEPT ![r] =
                       Finish(r, "requireActiveSubscription", 500,
                              [message |-> [template |-> "subscription-error"]])]
       ELSE \E subscription \in getSubscriptionByUserId(Val(req[r].userId)) :
              LET out == requireActiveSubscription(req[r].userId, subscription,
                                                   getPlanBySlug("gratis"))
              IN  req' = [req EXCEPT ![r] =
                     IF out.kind = "next"
                     THEN [req[r] EXCEPT !.pc = "resolved",
                              !.subscription = Some(out.subscription),
                              !.trail = Append(@, "subscription-resolved")]
                     ELSE Finish(r, "requireActiveSubscription",
                                 out.status, out.body)]
    /\ UNCHANGED <<plans, subscriptions, products, ops, shipVars, auxVars>>

\* checkProductLimit runs: the store, the count when the plan has a limit,
\* then next() or a response; 500 when a query throws.
CheckProductLimit(r, throws) ==
    /\ req[r].pc = "resolved"
    /\ IF throws
       THEN req' = [req EXCEPT ![r] =
                       Finish(r, "checkProductLimit", 500,
                              [message |-> [template |-> "limit-error"]])]
       ELSE \E store \in getStoreByUserId(Val(req[r].userId)) :
              LET counted == /\ ~IsNull(store)
                             /\ HasProductLimit(Val(req[r].subscription).plan)
                  current == IF counted THEN productCount(Val(store).id) ELSE 0
                  out == checkProductLimit(Val(req[r].subscription), store, current)
              IN  req' = [req EXCEPT ![r] =
                     IF out.kind = "next"
                     THEN [req[r] EXCEPT !.pc = "allow",
                              !.store = Some(Val(store).id),
                              !.current = IF counted THEN Some(current) ELSE Null,
                              !.trail = @ \o <<"limit-checked", "allow">>]
                     ELSE IF out.status = 403
                     THEN [Finish(r, "checkProductLimit", out.status, out.body)
                              EXCEPT !.store = Some(Val(store).id),
                                     !.current = Some(current),
                                     !.subscription = req[r].subscription,
                                     !.trail = @ \o <<"limit-checked", "deny">>]
                     ELSE Finish(r, "checkProductLimit", out.status, out.body)]
    /\ UNCHANGED <<plans, subscriptions, products, ops, shipVars, auxVars>>

\* Mutant: the handler runs as soon as the subscription is resolved, without
\* waiting for checkProductLimit.
CreateProduct_unchecked(r, body, throws) ==
    /\ req[r].pc \in {"resolved", "allow"}
    /\ ~throws
    /\ \E store \in getStoreByUserId(Val(req[r].userId)) :
          LET out == productTarget(Val(req[r].userId), body, store)
          IN  /\ out.kind = "insert"
              /\ products' = [products EXCEPT ![out.storeId] = @ + 1]
              /\ req' = [req EXCEPT ![r] =
                    [Finish(r, "handler", 200,
                            [storeId |-> out.storeId, isActive |-> TRUE])
                        EXCEPT !.inserted = Some(out.storeId),
                               !.store = req[r].store,
                               !.current = req[r].current]]
    /\ UNCHANGED <<plans, subscriptions, ops, shipVars, auxVars>>

\* Mutant: the handler tests the limit again on the target store in the
\* step that inserts.
CreateProduct_atomic(r, body, throws) ==
    /\ req[r].pc = "allow"
    /\ ~throws
    /\ \E store \in getStoreByUserId(Val(req[r].userId)) :
          LET out == productTarget(Val(req[r].userId), body, store)
              full == /\ out.kind = "insert"
                      /\ LimitReached(Val(req[r].subscription).plan,
                                      products[out.storeId])
          IN  IF out.kind = "insert" /\ ~full
              THEN /\ products' = [products EXCEPT ![out.storeId] = @ + 1]
                   /\ req' = [req EXCEPT ![r] =
                         [Finish(r, "handler", 200,
                                 [storeId |-> out.storeId, isActive |-> TRUE])
                             EXCEPT !.inserted = Some(out.storeId),
                                    !.store = req[r].store,
                                    !.current = req[r].current]]
              ELSE /\ req' = [req EXCEPT ![r] =
                         IF full
                         THEN Finish(r, "handler", 403,
                                     [message |-> [template |-> "limit-reached"]])
                         ELSE Finish(r, "handler", out.status, out.body)]
                   /\ UNCHANGED products
    /\ UNCHANGED <<plans, subscriptions, ops, shipVars, auxVars>>

\* The route handler runs on req.body: the target store, the parse,
\* createProduct.  Its catch answers every exception, a failed query
\* included, with 400.  No guard reads req.body, so the model draws it
\* here.
CreateProduct(r, body, throws) ==
    /\ req[r].pc = "allow"
    /\ IF throws
       THEN /\ req' = [req EXCEPT ![r] =
                          Finish(r, "handler", 400,
                                 [message |-> [template |-> "query-error"]])]
            /\ UNCHANGED products
       ELSE \E store \in getStoreByUserId(Val(req[r].userId)) :
              LET out == productTarget(Val(req[r].userId), body, store)
              IN  IF out.kind = "insert"
                  THEN /\ products' = [products EXCEPT ![out.storeId] = @ + 1]
                       /\ req' = [req EXCEPT ![r] =
                             [Finish(r, "handler", 200,
                                     [storeId |-> out.storeId, isActive |-> TRUE])
                                 EXCEPT !.inserted = Some(out.storeId),
                                        !.store = req[r].store,
                                        !.current = req[r].current]]
                  ELSE /\ req' = [req EXCEPT ![r] =
                             Finish(r, "handler", out.status, out.body)]
                       /\ UNCHANGED products
    /\ UNCHANGED <<plans, subscriptions, ops, shipVars, auxVars>>

\* DELETE /api/products/:id on a product of store s.
DeleteProduct(s) ==
    /\ ops < MaxOps
    /\ products[s] > 0
    /\ products' = [products EXCEPT ![s] = @ - 1]
    /\ ops' = ops + 1
    /\ UNCHANGED <<plans, subscriptions, req, shipVars, auxVars>>

\* A route that has not answered yet.
NoAnswer == [status |-> 0]

-----------------------------------------------------------------------------
(* Orders and the usage snapshot                                           *)

\* The number of instants of the clock in a calendar month.
MonthTicks == 2

\* The last instant of the clock and the largest number of orders in the
\* runs of the usage snapshot.
MaxUsageTime == 3
MaxOrders == 2

\* new Date(now.getFullYear(), now.getMonth(), 1): 00:00:00 of the first
\* day of the month of t, in the time zone of the server.
FirstDayOfMonth(t) == t - (t % MonthTicks)

\* Mutant: an order created at the first instant of the month is left out.
OrdersThisMonth_after(rows, t) ==
    {order \in rows : order.createdAt > FirstDayOfMonth(t)}

\* orders.filter(order => new Date(order.createdAt!) >= firstDayOfMonth)
OrdersThisMonth(rows, t) ==
    {order \in rows : order.createdAt >= FirstDayOfMonth(t)}

\* getOrdersByStoreId
getOrdersByStoreId(storeId) == {order \in orders : order.storeId = storeId}

\* The orders created in the run, numbered from 1; the orders a run starts
\* with have larger ids.
CreatedOrders == {order \in orders : order.id <= MaxOrders}

\* POST /api/orders: createOrder inserts with the default status pending and
\* created_at = now().
CreateOrder(storeId) ==
    /\ Cardinality(CreatedOrders) < MaxOrders
    /\ orders' = orders \cup
          {[id |-> Cardinality(CreatedOrders) + 1, storeId |-> storeId,
            status |-> "pending", createdAt |-> now]}
    /\ usage' = NoAnswer
    /\ orderGuard' = NoAnswer
    /\ UNCHANGED <<shipVars, gateVars, subVars, catalogVars, upsertVars>>

\* PATCH /api/orders/:id changing the status: updateOrder.
UpdateOrder(id, status) ==
    /\ \E order \in orders : order.id = id /\ order.status # status
    /\ orders' = {IF order.id = id THEN [order EXCEPT !.status = status]
                  ELSE order : order \in orders}
    /\ usage' = NoAnswer
    /\ orderGuard' = NoAnswer
    /\ UNCHANGED <<shipVars, gateVars, subVars, catalogVars, upsertVars>>

\* Time passes.
TickUsage ==
    /\ now < MaxUsageTime
    /\ now' = now + 1
    /\ usage' = NoAnswer
    /\ orderGuard' = NoAnswer
    /\ UNCHANGED <<resolved, orders, shipVars, gateVars, catalogVars, upsertVars>>

\* GET /api/plan-usage: getPlanUsage, 404 when it returns null (no store, or
\* a query threw).
GetPlanUsage(userId, throws) ==
    /\ IF throws
       THEN usage' = [status |-> 404, userId |-> userId]
       ELSE \E store \in getStoreByUserId(userId),
               subscription \in getSubscriptionByUserId(userId) :
              LET storeId == IF IsNull(store) THEN "none" ELSE Val(store).id
                  productsLength == IF IsNull(store) THEN 0 ELSE productCount(storeId)
                  ordersThisMonth ==
                      IF IsNull(store) THEN {}
                      ELSE OrdersThisMonth(getOrdersByStoreId(storeId), now)
                  out == getPlanUsage(store, subscription, getPlanBySlug("gratis"),
                                      productsLength, Cardinality(ordersThisMonth))
              IN  usage' = IF IsNull(out)
                           THEN [status |-> 404, userId |-> userId]
                           ELSE [status |-> 200, userId |-> userId,
                                 storeId |-> storeId, body |-> Val(out)]
    /\ UNCHANGED <<orders, orderGuard, shipVars, gateVars, subVars, catalogVars,
                   upsertVars>>

\* plan?.maxOrders !== null && plan?.maxOrders !== undefined
HasOrderLimit(plan) ==
    /\ ~IsNull(plan)
    /\ ~IsNull(Val(plan).maxOrders)

\* Mutant: only a store above the limit is refused.
checkOrderLimit_over(subscription, store, current) ==
    IF IsNull(store)
    THEN Respond(404, [message |-> [template |-> "store-not-found"]])
    ELSE IF HasOrderLimit(subscription.plan)
            /\ current > Val(Val(subscription.plan).maxOrders)
    THEN Respond(403,
           [message |-> [template |-> "order-limit-reached",
                         maxOrders |-> Val(Val(subscription.plan).maxOrders),
                         planName |-> Val(subscription.plan).name],
            limit |-> Val(Val(subscription.plan).maxOrders),
            current |-> current,
            upgradeRequired |-> TRUE,
            redirectTo |-> RedirectTo])
    ELSE CallNext(subscription)

\* checkOrderLimit, given req.subscription, the store getStoreByUserId
\* returned and the number of that store's orders of the current month.
checkOrderLimit(subscription, store, current) ==
    IF IsNull(store)
    THEN Respond(404, [message |-> [template |-> "store-not-found"]])
    ELSE IF HasOrderLimit(subscription.plan)
            /\ current >= Val(Val(subscription.plan).maxOrders)
    THEN Respond(403,
           [message |-> [template |-> "order-limit-reached",
                         maxOrders |-> Val(Val(subscription.plan).maxOrders),
                         planName |-> Val(subscription.plan).name],
            limit |-> Val(Val(subscription.plan).maxOrders),
            current |-> current,
            upgradeRequired |-> TRUE,
            redirectTo |-> RedirectTo])
    ELSE CallNext(subscription)

\* checkOrderLimit runs for a user.  No route mounts it; it reads
\* req.subscription, which only requireActiveSubscription sets, so it is
\* run here behind that guard, as checkProductLimit is on POST
\* /api/products.  500 when a query throws.
CheckOrderLimit(userId, throws) ==
    /\ IF throws
       THEN orderGuard' = [status |-> 500, userId |-> userId]
       ELSE \E subscription \in getSubscriptionByUserId(userId),
               store \in getStoreByUserId(userId) :
              LET resolvedSub == requireActiveSubscription(Some(userId), subscription,
                                                    getPlanBySlug("gratis"))
                  counted == /\ ~IsNull(store)
                             /\ HasOrderLimit(resolvedSub.subscription.plan)
                  current == IF counted
                             THEN Cardinality(OrdersThisMonth(
                                      getOrdersByStoreId(Val(store).id), now))
                             ELSE 0
                  out == checkOrderLimit(resolvedSub.subscription, store, current)
              IN  /\ resolvedSub.kind = "next"
                  /\ orderGuard' =
                        IF out.kind = "next"
                        THEN [status |-> 200, userId |-> userId,
                              storeId |-> Val(store).id,
                              plan |-> resolvedSub.subscription.plan]
                        ELSE IF out.status = 403
                        THEN [status |-> 403, userId |-> userId,
                              storeId |-> Val(store).id,
                              plan |-> resolvedSub.subscription.plan,
                              body |-> out.body]
                        ELSE [status |-> out.status, userId |-> userId]
    /\ UNCHANGED <<orders, usage, shipVars, gateVars, subVars, catalogVars,
                   upsertVars>>

-----------------------------------------------------------------------------
(* The plan catalog: GET /api/plans and POST /api/admin/setup-plans        *)

\* CACHE_TTL, in minutes; the clock of these runs counts minutes.
CACHE_TTL == 5

\* The last minute of the clock in the runs of the plan catalog.
MaxPlanTime == 6

\* Two GET /api/plans requests are handled at the same time.
Listings == {1, 2}

\* fallbackPlans of GET /api/plans.
fallbackPlans ==
    << [id |-> "gratis", name |-> "Gratis", slug |-> "gratis", price |-> Dec_0,
        maxProducts |-> Some(5), maxOrders |-> Some(10), isActive |-> Some(TRUE)],
       [id |-> "basico", name |-> "Basico", slug |-> "basico",
        price |-> Dec_29_90,
        maxProducts |-> Some(50), maxOrders |-> Some(100), isActive |-> Some(TRUE)],
       [id |-> "profissional", name |-> "Profissional", slug |-> "profissional",
        price |-> Dec_79_90,
        maxProducts |-> Some(200), maxOrders |-> Null, isActive |-> Some(TRUE)],
       [id |-> "enterprise", name |-> "Enterprise", slug |-> "enterprise",
        price |-> Dec_199_90,
        maxProducts |-> Null, maxOrders |-> Null, isActive |-> Some(TRUE)] >>

\* getAllPlans: the active plans ORDER BY price; rows of equal price come
\* in any order, so the result is one of a set.
getAllPlans ==
    LET rows == {p \in plans : p.isActive = Some(TRUE)}
        n == Cardinality(rows)
    IN  {f \in [1..n -> rows] :
            /\ \A i, j \in 1..n : i # j => f[i] # f[j]
            /\ \A i, j \in 1..n :
                  i < j => parseFloat(f[i].price) <= parseFloat(f[j].price)}

IdleListing ==
    [pc |-> "idle", at |-> 0, read |-> Null, from |-> "none", response |-> Null]

\* GET /api/plans up to the await: the cache is answered when it is there
\* and younger than CACHE_TTL; otherwise getAllPlans is called, and returns
\* or throws.
StartListing(l, throws) ==
    /\ listing[l].pc \in {"idle", "done"}
    /\ \A k \in Listings : k < l => listing[k].pc = "reading"
    /\ IF ~IsNull(plansCache) /\ (now - plansCacheTime) < CACHE_TTL
       THEN listing' = [listing EXCEPT ![l] =
                [IdleListing EXCEPT !.pc = "done", !.from = "cache",
                                    !.response = plansCache]]
       ELSE IF throws
       THEN listing' = [listing EXCEPT ![l] =
                [IdleListing EXCEPT !.pc = "reading", !.at = now]]
       ELSE \E rows \in getAllPlans :
               listing' = [listing EXCEPT ![l] =
                  [IdleListing EXCEPT !.pc = "reading", !.at = now,
                                      !.read = Some(rows)]]
    /\ UNCHANGED <<plansCache, plansCacheTime, setup, lastRead, shipVars,
                   gateVars, subVars, usageVars, upsertVars>>

\* Mutant: the catch answers the hardcoded plans whatever the cache holds.
FinishListing_noStale(l) ==
    /\ listing[l].pc = "reading"
    /\ IF ~IsNull(listing[l].read)
       THEN /\ plansCache' = listing[l].read
            /\ plansCacheTime' = listing[l].at
            /\ lastRead' = listing[l].read
            /\ listing' = [listing EXCEPT ![l] =
                  [IdleListing EXCEPT !.pc = "done", !.from = "store",
                            !.response = listing[l].read]]
       ELSE /\ listing' = [listing EXCEPT ![l] =
                  [IdleListing EXCEPT !.pc = "done", !.from = "fallback",
                            !.response = Some(fallbackPlans)]]
            /\ UNCHANGED <<plansCache, plansCacheTime, lastRead>>
    /\ UNCHANGED <<setup, shipVars, gateVars, subVars, usageVars, upsertVars>>

\* Mutant: without a cache the catch answers 500.
FinishListing_noFallback(l) ==
    /\ listing[l].pc = "reading"
    /\ IF ~IsNull(listing[l].read)
       THEN /\ plansCache' = listing[l].read
            /\ plansCacheTime' = listing[l].at
            /\ lastRead' = listing[l].read
            /\ listing' = [listing EXCEPT ![l] =
                  [IdleListing EXCEPT !.pc = "done", !.from = "store",
                            !.response = listing[l].read]]
       ELSE /\ listing' = [listing EXCEPT ![l] =
                  IF ~IsNull(plansCache)
                  THEN [IdleListing EXCEPT !.pc = "done", !.from = "stale",
                                 !.response = plansCache]
                  ELSE [IdleListing EXCEPT !.pc = "done", !.from = "error"]]
            /\ UNCHANGED <<plansCache, plansCacheTime, lastRead>>
    /\ UNCHANGED <<setup, shipVars, gateVars, subVars, usageVars, upsertVars>>

\* Mutant: a read that succeeds replaces the cached list and leaves the
\* timestamp.
FinishListing_keepTime(l) ==
    /\ listing[l].pc = "reading"
    /\ IF ~IsNull(listing[l].read)
       THEN /\ plansCache' = listing[l].read
            /\ lastRead' = listing[l].read
            /\ listing' = [listing EXCEPT ![l] =
                  [IdleListing EXCEPT !.pc = "done", !.from = "store",
                            !.response = listing[l].read]]
            /\ UNCHANGED plansCacheTime
       ELSE /\ listing' = [listing EXCEPT ![l] =
                  IF ~IsNull(plansCache)
                  THEN [IdleListing EXCEPT !.pc = "done", !.from = "stale",
                                 !.response = plansCache]
                  ELSE [IdleListing EXCEPT !.pc = "done", !.from = "fallback",
                                 !.response = Some(fallbackPlans)]]
            /\ UNCHANGED <<plansCache, plansCacheTime, lastRead>>
    /\ UNCHANGED <<setup, shipVars, gateVars, subVars, usageVars, upsertVars>>

\* Mutant: the catch stores the hardcoded plans in the cache.
FinishListing_cacheFallback(l) ==
    /\ listing[l].pc = "reading"
    /\ IF ~IsNull(listing[l].read)
       THEN /\ plansCache' = listing[l].read
            /\ plansCacheTime' = listing[l].at
            /\ lastRead' = listing[l].read
            /\ listing' = [listing EXCEPT ![l] =
                  [IdleListing EXCEPT !.pc = "done", !.from = "store",
                            !.response = listing[l].read]]
       ELSE IF ~IsNull(plansCache)
       THEN /\ listing' = [listing EXCEPT ![l] =
                  [IdleListing EXCEPT !.pc = "done", !.from = "stale",
                                 !.response = plansCache]]
            /\ UNCHANGED <<plansCache, plansCacheTime, lastRead>>
       ELSE /\ listing' = [listing EXCEPT ![l] =
                  [IdleListing EXCEPT !.pc = "done", !.from = "fallback",
                                 !.response = Some(fallbackPlans)]]
            /\ plansCache' = Some(fallbackPlans)
            /\ plansCacheTime' = listing[l].at
            /\ UNCHANGED lastRead
    /\ UNCHANGED <<setup, shipVars, gateVars, subVars, usageVars, upsertVars>>

\* GET /api/plans after the await.  getAllPlans returned: the cache and its
\* time (the now of the request) are replaced and the rows answered.  It
\* threw: the catch answers the cache when there is one, however old, and
\* the hardcoded plans otherwise.  Every answer is a 200.
FinishListing(l) ==
    /\ listing[l].pc = "reading"
    /\ IF ~IsNull(listing[l].read)
       THEN /\ plansCache' = listing[l].read
            /\ plansCacheTime' = listing[l].at
            /\ lastRead' = listing[l].read
            /\ listing' = [listing EXCEPT ![l] =
                  [IdleListing EXCEPT !.pc = "done", !.from = "store",
                            !.response = listing[l].read]]
       ELSE /\ listing' = [listing EXCEPT ![l] =
                  IF ~IsNull(plansCache)
                  THEN [IdleListing EXCEPT !.pc = "done", !.from = "stale",
                                 !.response = plansCache]
                  ELSE [IdleListing EXCEPT !.pc = "done", !.from = "fallback",
                                 !.response = Some(fallbackPlans)]]
            /\ UNCHANGED <<plansCache, plansCacheTime, lastRead>>
    /\ UNCHANGED <<setup, shipVars, gateVars, subVars, usageVars, upsertVars>>

\* A minute passes.
TickPlans ==
    /\ now < MaxPlanTime
    /\ now' = now + 1
    /\ UNCHANGED <<resolved, shipVars, gateVars, usageVars, catalogVars,
                   upsertVars>>

\* Who calls POST /api/admin/setup-plans: the route has no isAuthenticated
\* and reads nothing of the caller.
Callers == {"anonymous", "merchant"}

IdleSetup == [pc |-> "idle", caller |-> "none", status |-> 0]

\* POST /api/admin/setup-plans up to the insert: db.delete(plans).  The
\* delete fails while a subscription refers to a plan (plan_id references
\* plans.id, no cascade), and the catch answers 500.
SetupPlansDelete(caller) ==
    /\ setup.pc = "idle"
    /\ IF \E x \in subscriptions, p \in plans : x.planId = p.id
       THEN /\ setup' = [pc |-> "idle", caller |-> caller, status |-> 500]
            /\ UNCHANGED plans
       ELSE /\ setup' = [pc |-> "deleted", caller |-> caller, status |-> 0]
            /\ plans' = {}
    /\ UNCHANGED <<subscriptions, products, req, ops, plansCache,
                   plansCacheTime, listing, lastRead, shipVars, subVars,
                   usageVars, upsertVars>>

\* POST /api/admin/setup-plans from the insert on: the four rows are
\* inserted and 200 answered, or the insert throws and 500 is answered.
SetupPlansInsert(throws) ==
    /\ setup.pc = "deleted"
    /\ IF throws
       THEN /\ setup' = [setup EXCEPT !.pc = "idle", !.status = 500]
            /\ UNCHANGED plans
       ELSE /\ setup' = [setup EXCEPT !.pc = "idle", !.status = 200]
            /\ plans' = plans \cup plansToInsert
    /\ UNCHANGED <<subscriptions, products, req, ops, plansCache,
                   plansCacheTime, listing, lastRead, shipVars, subVars,
                   usageVars, upsertVars>>

-----------------------------------------------------------------------------
(* Subscriptions: the operations that change them                          *)

\* Mutant: the user's rows are deleted.
CancelSubscription_delete(userId) ==
    /\ subscriptions' = {x \in subscriptions : x.userId # userId}
    /\ subscriptions' # subscriptions
    /\ resolved' = NoAnswer
    /\ UNCHANGED <<plans, products, req, ops, shipVars, now, usageVars,
                   catalogVars, upsertVars>>

\* cancelSubscription: UPDATE subscriptions SET status = 'canceled',
\* cancel_at_period_end = true WHERE user_id = $1.
CancelSubscription(userId) ==
    /\ subscriptions' =
          { IF x.userId = userId
            THEN [x EXCEPT !.status = "canceled", !.cancelAtPeriodEnd = TRUE]
            ELSE x : x \in subscriptions }
    /\ subscriptions' # subscriptions
    /\ resolved' = NoAnswer
    /\ UNCHANGED <<plans, products, req, ops, shipVars, now, usageVars,
                   catalogVars, upsertVars>>

\* The largest number of rows of table subscriptions.
MaxSubs == 3

\* The last instant of the clock in the runs of the subscription
\* operations.
MaxSubTime == 2

\* The plans a subscription is created for.
SubscribedPlans == {PlanId("gratis"), PlanId("basico"), "missing"}

\* createSubscription from POST /api/subscription/create-checkout (free
\* plan) or from the Stripe webhook (checkout.session.completed): INSERT
\* with status active; created_at defaults to now().  plan_id references
\* plans: the insert fails for a plan that is not there.
CreateSubscription(userId, planId) ==
    /\ Cardinality(subscriptions) < MaxSubs
    /\ ~IsNull(getPlanById(planId))
    /\ subscriptions' = subscriptions \cup
          {[id |-> Cardinality(subscriptions) + 1, userId |-> userId,
            planId |-> planId, status |-> "active",
            cancelAtPeriodEnd |-> FALSE, createdAt |-> now]}
    /\ resolved' = NoAnswer
    /\ UNCHANGED <<plans, products, req, ops, shipVars, now, usageVars,
                   catalogVars, upsertVars>>

\* Time passes between two operations on subscriptions.
TickSub ==
    /\ now < MaxSubTime
    /\ now' = now + 1
    /\ UNCHANGED <<resolved, shipVars, gateVars, usageVars, catalogVars,
                   upsertVars>>

\* GET /api/subscription for an authenticated user: 200 with the
\* subscription or the free plan, 500 when a query throws.
GetSubscription(userId, throws) ==
    /\ IF throws
       THEN resolved' = [status |-> 500, userId |-> userId]
       ELSE \E subscription \in getSubscriptionByUserId(userId) :
               resolved' =
                  [status |-> 200, userId |-> userId,
                   body |-> getSubscriptionResponse(subscription,
                                                    getPlanBySlug("gratis"))]
    /\ UNCHANGED <<now, shipVars, gateVars, usageVars, catalogVars, upsertVars>>

-----------------------------------------------------------------------------
(* upsertShippingConfig, statement by statement                            *)

\* The POST /api/shipping/config requests that may be in flight together.
Upserts == {1, 2}

IdleUpsert == [pc |-> "idle"]

\* The first statement of upsertShippingConfig: existing is the row
\* getShippingConfig returns at this moment.  The lower slot is taken
\* first.
UpsertRead(u, configData) ==
    /\ upserts[u].pc \in {"idle", "done"}
    /\ \A k \in Upserts : k < u => upserts[k].pc = "read"
    /\ upserts' = [upserts EXCEPT ![u] =
          [pc |-> "read", configData |-> configData,
           existing |-> getShippingConfig(configData.storeId)]]
    /\ UNCHANGED <<shipVars, gateVars, subVars, usageVars, catalogVars>>

\* The second statement.  After a read that found a row: UPDATE ... WHERE
\* id = existing.id.  After a read that found none: INSERT, which the
\* unique constraint on store_id rejects when the store has a row by now;
\* the route's catch answers 500.
UpsertWrite(u) ==
    /\ upserts[u].pc = "read"
    /\ LET configData == upserts[u].configData
           existing == upserts[u].existing
           created == [id |-> configData.storeId,
                       storeId |-> configData.storeId,
                       freeShippingThreshold |-> configData.freeShippingThreshold,
                       defaultShippingCost |-> configData.defaultShippingCost]
       IN  IF ~IsNull(existing)
           THEN /\ shippingConfigs' =
                     { IF c.id = Val(existing).id
                       THEN [c EXCEPT
                               !.freeShippingThreshold = configData.freeShippingThreshold,
                               !.defaultShippingCost = configData.defaultShippingCost]
                       ELSE c : c \in shippingConfigs }
                /\ upserts' = [upserts EXCEPT ![u] =
                      [pc |-> "done", configData |-> configData, status |-> 200]]
           ELSE IF \E c \in shippingConfigs : c.storeId = configData.storeId
           THEN /\ shippingConfigs' = shippingConfigs
                /\ upserts' = [upserts EXCEPT ![u] =
                      [pc |-> "done", configData |-> configData, status |-> 500]]
           ELSE /\ shippingConfigs' = shippingConfigs \cup {created}
                /\ upserts' = [upserts EXCEPT ![u] =
                      [pc |-> "done", configData |-> configData, status |-> 200]]
    /\ quote' = NoQuote
    /\ UNCHANGED <<shippingZones, gateVars, subVars, usageVars, catalogVars>>

-----------------------------------------------------------------------------
(* Specifications                                                          *)

ShipIdle ==
    /\ shippingConfigs = {}
    /\ shippingZones = {}
    /\ quote = NoQuote

GateIdle ==
    /\ plans = {}
    /\ subscriptions = {}
    /\ products = [s \in StoreIds |-> 0]
    /\ req = [r \in Req |-> IdleReq]
    /\ ops = 0

SubIdle ==
    /\ now = 0
    /\ resolved = NoAnswer

UsageIdle ==
    /\ orders = {}
    /\ usage = NoAnswer
    /\ orderGuard = NoAnswer

CatalogIdle ==
    /\ plansCache = Null
    /\ plansCacheTime = 0
    /\ listing = [l \in Listings |-> IdleListing]
    /\ setup = IdleSetup
    /\ lastRead = Null

UpsertIdle == upserts = [u \in Upserts |-> IdleUpsert]

AuxIdle == SubIdle /\ UsageIdle /\ CatalogIdle /\ UpsertIdle

\* The shipping tables and the quote route, on an empty database.
InitShip == ShipIdle /\ GateIdle /\ AuxIdle

NextShip ==
    \/ \E configData \in ConfigInputs : UpsertShippingConfig(configData)
    \/ \E zoneData \in ZoneRows : CreateShippingZone(zoneData)
    \/ \E zoneData \in ZoneRows : DeleteShippingZone(zoneData.id)
    \/ \E storeSlug \in SlugInputs, zipCode \in ZipInputs, orderTotal \in TotalInputs :
          CalculateShippingRoute(storeSlug, zipCode, orderTotal)

SpecShip == InitShip /\ [][NextShip]_vars

\* The product-creation path.  The stores hold products already; the plans
\* are seeded or not yet (then nobody has a subscription: plan_id
\* references plans).
InitGate ==
    /\ ShipIdle
    /\ plans \in {{}, plansToInsert}
    /\ subscriptions \in InitSubscriptions
    /\ products \in InitProducts
    /\ plans = {} => subscriptions = {} /\ products["s1"] = 4
    /\ req = [r \in Req |-> IdleReq]
    /\ ops = 0
    /\ AuxIdle

NextGate ==
    \/ \E r \in Req, userId \in UserIds : StartRequest(r, userId)
    \/ \E r \in Req, throws \in BOOLEAN : RequireActiveSubscription(r, throws)
    \/ \E r \in Req, throws \in BOOLEAN : CheckProductLimit(r, throws)
    \/ \E r \in Req, body \in ProductBodies, throws \in BOOLEAN :
          CreateProduct(r, body, throws)
    \/ \E s \in StoreIds : DeleteProduct(s)
    \/ \E userId \in UserIds : CancelSubscription(userId)

SpecGate == InitGate /\ [][NextGate]_vars

\* Subscriptions: created, cancelled and read back, with the plans seeded.
InitSub ==
    /\ ShipIdle /\ AuxIdle
    /\ plans = plansToInsert
    /\ subscriptions = {}
    /\ products = [s \in StoreIds |-> 0]
    /\ req = [r \in Req |-> IdleReq]
    /\ ops = 0

NextSub ==
    \/ \E userId \in UserIds, planId \in SubscribedPlans :
          CreateSubscription(userId, planId)
    \/ \E userId \in UserIds : CancelSubscription(userId)
    \/ TickSub
    \/ \E userId \in UserIds, throws \in BOOLEAN : GetSubscription(userId, throws)

SpecSub == InitSub /\ [][NextSub]_vars

\* The numbers of products of the first store in the runs of the usage
\* snapshot: none, above the limit of the free plan, and many.
UsageProducts == {0, 7, 10000}

\* The subscriptions in those runs: none (free plan, limits 5 and 10) or
\* one of u1 to the plan without limits.
UsageSubscriptions == { {}, {SubscriptionRow("u1", PlanId("enterprise"))} }

\* The usage snapshot: the plans seeded, u1 without subscription or on one
\* plan, orders created and updated as time passes.
InitUsage ==
    /\ ShipIdle /\ AuxIdle
    /\ plans = plansToInsert
    /\ subscriptions \in UsageSubscriptions
    /\ products \in {[s \in StoreIds |-> IF s = "s1" THEN a ELSE 5] :
                        a \in UsageProducts}
    /\ req = [r \in Req |-> IdleReq]
    /\ ops = 0

NextUsage ==
    \/ \E storeId \in StoreIds : CreateOrder(storeId)
    \/ \E id \in 1..MaxOrders : UpdateOrder(id, "cancelled")
    \/ TickUsage
    \/ \E userId \in UserIds, throws \in BOOLEAN : GetPlanUsage(userId, throws)

SpecUsage == InitUsage /\ [][NextUsage]_vars

\* Nine orders of the first store, placed at the first instant of the
\* clock: one short of the ten a month of the free plan.
NineOrders ==
    { [id |-> 100 + i, storeId |-> "s1",
       status |-> IF i = 1 THEN "cancelled" ELSE "pending", createdAt |-> 0] :
      i \in 1..9 }

\* The order limit: the plans seeded, u1 on the free plan or on the plan
\* without limits, the first store with no order or with nine.
InitOrders ==
    /\ ShipIdle /\ SubIdle /\ CatalogIdle /\ UpsertIdle
    /\ plans = plansToInsert
    /\ subscriptions \in UsageSubscriptions
    /\ products = [s \in StoreIds |-> 0]
    /\ req = [r \in Req |-> IdleReq]
    /\ ops = 0
    /\ orders \in {{}, NineOrders}
    /\ usage = NoAnswer
    /\ orderGuard = NoAnswer

NextOrders ==
    \/ \E storeId \in StoreIds : CreateOrder(storeId)
    \/ \E id \in 1..MaxOrders : UpdateOrder(id, "cancelled")
    \/ TickUsage
    \/ \E userId \in UserIds, throws \in BOOLEAN : CheckOrderLimit(userId, throws)

SpecOrders == InitOrders /\ [][NextOrders]_vars

\* The plan catalog: a new database or one with the plans seeded, with or
\* without a subscription to one of them.
InitPlans ==
    /\ ShipIdle /\ AuxIdle
    /\ plans \in {{}, plansToInsert}
    /\ subscriptions \in {{}, {SubscriptionRow("u1", PlanId("basico"))}}
    /\ plans = {} => subscriptions = {}
    /\ products = [s \in StoreIds |-> 0]
    /\ req = [r \in Req |-> IdleReq]
    /\ ops = 0

NextPlans ==
    \/ \E l \in Listings, throws \in BOOLEAN : StartListing(l, throws)
    \/ \E l \in Listings : FinishListing(l)
    \/ TickPlans
    \/ \E caller \in Callers : SetupPlansDelete(caller)
    \/ \E throws \in BOOLEAN : SetupPlansInsert(throws)

SpecPlans == InitPlans /\ [][NextPlans]_vars

\* The user with one store, SoloStore, on a plan that does not change; its
\* requests are handled one after the other, in the first slot.
SoloUser == "u3"
SoloStore == "s3"

SoloBodies == ProductBodies \cup {[storeId |-> Some(SoloStore), valid |-> TRUE]}

\* The plan the gate resolves for SoloUser and its maxProducts.
SoloPlan ==
    IF \E x \in subscriptions : x.userId = SoloUser
    THEN getPlanById((CHOOSE x \in subscriptions : x.userId = SoloUser).planId)
    ELSE getPlanBySlug("gratis")

SoloLimit == Val(Val(SoloPlan).maxProducts)

\* The store holds as many products as the plan allows, or one less.
InitSolo ==
    /\ ShipIdle /\ AuxIdle
    /\ plans = plansToInsert
    /\ subscriptions \in
          { {} } \cup
          { {SubscriptionRow(SoloUser, PlanId(p))} : p \in {"gratis", "basico"} }
    /\ products \in {[s \in StoreIds \cup {SoloStore} |->
                         IF s = SoloStore THEN a ELSE 0] : a \in {4, 5, 49, 50}}
    /\ products[SoloStore] \in {SoloLimit - 1, SoloLimit}
    /\ req = [r \in Req |-> IdleReq]
    /\ ops = 0

\* DELETE /api/products/:id on a product of SoloStore, while no creation
\* is being handled.
DeleteSoloProduct ==
    /\ req[1].pc \in {"idle", "done"}
    /\ DeleteProduct(SoloStore)

NextSolo ==
    \/ StartRequest(1, SoloUser)
    \/ \E throws \in BOOLEAN : RequireActiveSubscription(1, throws)
    \/ \E throws \in BOOLEAN : CheckProductLimit(1, throws)
    \/ \E body \in SoloBodies, throws \in BOOLEAN : CreateProduct(1, body, throws)
    \/ DeleteSoloProduct

SpecSolo == InitSolo /\ [][NextSolo]_vars

\* Subscriptions that lapse and are renewed while products are created:
\* the plans seeded, no subscription yet, the first store of u1 below the
\* limit of the free plan.
LapseBodies == {[storeId |-> Null, valid |-> TRUE]}

InitLapse ==
    /\ ShipIdle /\ AuxIdle
    /\ plans = plansToInsert
    /\ subscriptions = {}
    /\ products = [s \in StoreIds |-> IF s = "s1" THEN 3 ELSE 5]
    /\ req = [r \in Req |-> IdleReq]
    /\ ops = 0

NextLapse ==
    \/ CreateSubscription("u1", PlanId("basico"))
    \/ CancelSubscription("u1")
    \/ TickSub
    \/ StartRequest(1, "u1")
    \/ \E throws \in BOOLEAN : RequireActiveSubscription(1, throws)
    \/ CheckProductLimit(1, FALSE)
    \/ \E body \in LapseBodies : CreateProduct(1, body, FALSE)

SpecLapse == InitLapse /\ [][NextLapse]_vars

Init == InitShip
Next == NextShip
Spec == SpecShip

\* The shipping configuration under overlapping requests, on an empty
\* database.
InitConfig == ShipIdle /\ GateIdle /\ AuxIdle

NextConfig ==
    \/ \E u \in Upserts, configData \in ConfigInputs : UpsertRead(u, configData)
    \/ \E u \in Upserts : UpsertWrite(u)

SpecConfig == InitConfig /\ [][NextConfig]_vars

-----------------------------------------------------------------------------
(* Properties of the shipping quote                                        *)

\* The quote at hand answers a request for an existing store.
Quoted == quote.status = 200

\* A request naming an existing store and a zip code has been answered.
ValidRequest ==
    /\ quote.status # 0
    /\ ~IsNull(quote.storeSlug) /\ Val(quote.storeSlug) \in StoreIds
    /\ Truthy(quote.zipCode)
QuoteStore == Val(quote.storeSlug)
QuoteTotal == IF IsNull(quote.orderTotal) THEN 0 ELSE Val(quote.orderTotal)
QuoteZip == StripNonDigits(Val(quote.zipCode))
QuoteConfigs == {c \in shippingConfigs : c.storeId = QuoteStore}
QuoteStoreZones == {z \in shippingZones : z.storeId = QuoteStore}

\* a <= b on digit strings, stated by the first position where they differ.
Min2(a, b) == IF a <= b THEN a ELSE b
DigitStrLeq(a, b) ==
    \/ a = b
    \/ /\ Len(a) < Len(b)
       /\ \A j \in 1..Len(a) : a[j] = b[j]
    \/ \E k \in 1..Min2(Len(a), Len(b)) :
          /\ DigitVal(a[k]) < DigitVal(b[k])
          /\ \A j \in 1..(k - 1) : a[j] = b[j]

\* The zone's digit-stripped range holds the digit-stripped zip.
Contains(z, zip) ==
    /\ DigitStrLeq(StripNonDigits(z.zipCodeStart), zip)
    /\ DigitStrLeq(zip, StripNonDigits(z.zipCodeEnd))

\* A free-shipping threshold T > 0 is configured and the order total
\* reaches it.
ThresholdReached ==
    \E c \in QuoteConfigs :
        /\ ~IsNull(c.freeShippingThreshold)
        /\ parseFloat(Val(c.freeShippingThreshold)) > 0
        /\ QuoteTotal >= parseFloat(Val(c.freeShippingThreshold))

\* The store's default shipping cost: 0 without a row or without a value.
StoreDefaultCost ==
    IF \E c \in QuoteConfigs : ~IsNull(c.defaultShippingCost)
    THEN parseFloat(Val((CHOOSE c \in QuoteConfigs : TRUE).defaultShippingCost))
    ELSE 0

\* C5: when the store has a free-shipping threshold T > 0 and the order
\* total is at least T, the quote is cost 0 with isFree = true, whatever
\* zones exist.
C5_ThresholdBeforeZones ==
    (Quoted /\ ThresholdReached) =>
        /\ quote.shipping.cost = 0
        /\ quote.body.isFree = TRUE
        /\ quote.body.shippingCost = <<"0">>

\* C5 witness: the threshold is reached while an active zone of the store
\* with a non-zero cost holds the zip code, and the quote is free.
C5_Witness ==
    /\ Quoted /\ ThresholdReached
    /\ \E z \in QuoteStoreZones :
          /\ z.isActive = Some(TRUE)
          /\ Contains(z, QuoteZip)
          /\ parseFloat(z.shippingCost) > 0
    /\ quote.shipping.cost = 0 /\ quote.body.isFree

C7_FirstZoneWins ==
    (Quoted /\ ~ThresholdReached) =>
        /\ {quote.zones[i] : i \in 1..Len(quote.zones)} =
              {z \in QuoteStoreZones : z.isActive = Some(TRUE)}
        /\ \A i \in 1..Len(quote.zones) :
              (/\ Contains(quote.zones[i], QuoteZip)
               /\ \A j \in 1..(i - 1) : ~Contains(quote.zones[j], QuoteZip)) =>
                  quote.shipping.cost = parseFloat(quote.zones[i].shippingCost)

\* C7 witness: zones 01000000..05999999 (cost 10, 3 days) and
\* 06000000..09999999 (cost 20, 5 days), zip 01310100: cost 10, days 3.
C7_Witness ==
    /\ Quoted /\ ~ThresholdReached
    /\ Len(quote.zones) = 2
    /\ quote.zones[1].zipCodeStart = Zip_01000000
    /\ quote.zones[1].zipCodeEnd = Zip_05999999
    /\ quote.zones[1].shippingCost = Dec_10
    /\ quote.zones[2].zipCodeStart = Zip_06000000
    /\ quote.zones[2].zipCodeEnd = Zip_09999999
    /\ Val(quote.zipCode) = Zip_01310100
    /\ quote.shipping.cost = 1000
    /\ quote.shipping.estimatedDays = 3

\* The first zone supplied whose range holds the zip code.
QuoteMatches ==
    {i \in 1..Len(quote.zones) :
        /\ Contains(quote.zones[i], QuoteZip)
        /\ \A j \in 1..(i - 1) : ~Contains(quote.zones[j], QuoteZip)}

\* C8 as stated: on a zone match the quote's estimatedDays is the zone's
\* for every non-null value, 0 included, and 7 when it is null; the cost is
\* the zone's shippingCost and isFree holds exactly when that cost is 0.
C8_ZoneDaysAndCost ==
    (Quoted /\ ~ThresholdReached) =>
        \A i \in QuoteMatches :
            /\ quote.body.estimatedDays =
                  IF IsNull(quote.zones[i].estimatedDays) THEN 7
                  ELSE Val(quote.zones[i].estimatedDays)
            /\ quote.shipping.cost = parseFloat(quote.zones[i].shippingCost)
            /\ quote.body.isFree = (parseFloat(quote.zones[i].shippingCost) = 0)

\* C8 witness: a quote is answered from a zone whose estimatedDays is 0.
C8_Witness ==
    /\ Quoted /\ ~ThresholdReached
    /\ \E i \in QuoteMatches : quote.zones[i].estimatedDays = Some(0)

-----------------------------------------------------------------------------
(* Properties of the product-creation path                                 *)

Answered(q) == q.pc = "done"
Status(q) == Val(q.response).status
Body(q) == Val(q.response).body

\* The request was refused by checkProductLimit on the limit.
Denied(q) ==
    /\ Answered(q) /\ q.by = "checkProductLimit" /\ Status(q) = 403

\* The stores of a user.
StoresOf(userId) == {x.id : x \in {y \in StoreRows : y.userId = userId}}

DenyPayload == {"message", "limit", "current", "upgradeRequired", "redirectTo"}

\* The step of checkProductLimit on a plan with a limit L, for the count c
\* of the store it read: deny with the payload when c >= L, allow when
\* c < L.
C1_Step ==
    \A r \in Req :
        LET a == req[r]
            b == req'[r]
            plan == Val(a.subscription).plan
            L == Val(Val(plan).maxProducts)
        IN  (/\ a.pc = "resolved" /\ b # a
             /\ HasProductLimit(plan)
             /\ ~(Answered(b) /\ Status(b) \in {404, 500})) =>
                \E s \in StoresOf(Val(a.userId)) :
                    LET c == products[s]
                    IN  \/ /\ c >= L
                           /\ Denied(b)
                           /\ DOMAIN Body(b) = DenyPayload
                           /\ Body(b).current = c
                           /\ Body(b).limit = L
                           /\ Body(b).upgradeRequired = TRUE
                        \/ /\ c < L
                           /\ b.pc = "allow"
                           /\ b.current = Some(c)

\* C1: in every step in which checkProductLimit reads the count c of the
\* user's store under a plan with maxProducts = L, the request is denied
\* exactly when c >= L, with current = c, limit = L and upgradeRequired =
\* true in the payload, and let through exactly when c < L.
C1_LimitThreshold == [][C1_Step]_vars

\* C1 witness: under the free plan (L = 5) one request is denied at c = 5
\* and another is let through at c = 4.
C1_Witness ==
    \E r1, r2 \in Req :
        /\ Denied(req[r1])
        /\ Body(req[r1]).current = 5 /\ Body(req[r1]).limit = 5
        /\ Body(req[r1]).upgradeRequired = TRUE
        /\ req[r2].pc = "allow"
        /\ req[r2].current = Some(4)
        /\ Val(Val(req[r2].subscription).plan).maxProducts = Some(5)

TrailAllow == <<"start", "subscription-resolved", "limit-checked", "allow">>
TrailDeny == <<"start", "subscription-resolved", "limit-checked", "deny">>

\* C2 as stated: every request that has ended went through start,
\* subscription-resolved and limit-checked and ended in allow or in deny.
C2_Original ==
    \A r \in Req : Answered(req[r]) => req[r].trail \in {TrailAllow, TrailDeny}

\* The steps a request may take.
C2_RequestStep(a, b) ==
    \/ /\ a.pc \in {"idle", "done"}
       /\ b.pc = "start" /\ b.trail = <<"start">>
    \/ /\ a.pc = "start"
       /\ b.pc = "resolved" /\ b.trail = <<"start", "subscription-resolved">>
    \/ /\ a.pc = "start"
       /\ Answered(b) /\ b.trail = <<"start">>
       /\ b.by = "requireActiveSubscription" /\ Status(b) \in {403, 500}
    \/ /\ a.pc = "resolved"
       /\ b.pc = "allow" /\ b.trail = TrailAllow
    \/ /\ a.pc = "resolved"
       /\ Denied(b) /\ b.trail = TrailDeny
    \/ /\ a.pc = "resolved"
       /\ Answered(b) /\ b.trail = <<"start", "subscription-resolved">>
       /\ b.by = "checkProductLimit" /\ Status(b) \in {404, 500}
    \/ /\ a.pc = "allow"
       /\ Answered(b) /\ b.trail = TrailAllow /\ b.by = "handler"

\* A product is added only by the handler of a request that was allowed,
\* and one at a time.
C2_InsertStep ==
    \A s \in StoreIds :
        products'[s] > products[s] =>
            /\ products'[s] = products[s] + 1
            /\ \E r \in Req :
                  /\ req[r].pc = "allow"
                  /\ Answered(req'[r])
                  /\ Status(req'[r]) = 200
                  /\ req'[r].inserted = Some(s)

\* Every step moves each request along the stages in order, a guard's step
\* leaves the tables as they are, and products are added by allowed
\* requests only.
C2_Step ==
    /\ \A r \in Req :
          req'[r] # req[r] =>
              /\ C2_RequestStep(req[r], req'[r])
              /\ req[r].pc \in {"start", "resolved"} =>
                    UNCHANGED <<plans, subscriptions, products>>
    /\ C2_InsertStep

\* C2 amended: a request advances only in the order start,
\* subscription-resolved, limit-checked, and the limit check ends in exactly
\* one of allow or deny; a request may end before (403 for a subscription
\* that is not active, 404 for a user without store, 500 when a query
\* fails).  createProduct runs only after allow, a request that is not
\* allowed adds no product, and the two guards change no stored state.
C2_GateStateMachine == [][C2_Step]_vars

\* C2 witness: one request has ended in deny and another, allowed, has
\* inserted its product.
C2_Witness ==
    \E r1, r2 \in Req :
        /\ Denied(req[r1]) /\ req[r1].trail = TrailDeny
        /\ Answered(req[r2]) /\ req[r2].trail = TrailAllow
        /\ ~IsNull(req[r2].inserted)

\* C3 as stated: every 403 on the POST /api/products path carries
\* {message, limit, current, upgradeRequired: true, redirectTo}.
C3_Original ==
    \A r \in Req :
        (Answered(req[r]) /\ Status(req[r]) = 403) =>
            /\ DOMAIN Body(req[r]) = DenyPayload
            /\ Body(req[r]).upgradeRequired = TRUE

\* C3 amended: the 403 of checkProductLimit carries {message, limit,
\* current, upgradeRequired: true, redirectTo}, the limit being the plan's
\* maxProducts and current the count read; the 403 of
\* requireActiveSubscription carries {message, redirectTo} and the 403 of
\* the handler carries {message} alone.
C3_BlockedPayloads ==
    \A r \in Req :
        (Answered(req[r]) /\ Status(req[r]) = 403) =>
            \/ /\ req[r].by = "checkProductLimit"
               /\ DOMAIN Body(req[r]) = DenyPayload
               /\ Body(req[r]).upgradeRequired = TRUE
               /\ Body(req[r]).redirectTo = "/dashboard/subscription"
               /\ Some(Body(req[r]).limit) =
                     Val(Val(req[r].subscription).plan).maxProducts
               /\ Some(Body(req[r]).current) = req[r].current
               /\ Body(req[r]).message.maxProducts = Body(req[r]).limit
            \/ /\ req[r].by = "requireActiveSubscription"
               /\ DOMAIN Body(req[r]) = {"message", "redirectTo"}
               /\ Body(req[r]).redirectTo = "/dashboard/subscription"
            \/ /\ req[r].by = "handler"
               /\ DOMAIN Body(req[r]) = {"message"}

\* C3 witness: a 403 of checkProductLimit with the whole payload next to a
\* 403 of another step that names no limit.
C3_Witness ==
    \E r1, r2 \in Req :
        /\ Denied(req[r1]) /\ DOMAIN Body(req[r1]) = DenyPayload
        /\ Answered(req[r2]) /\ Status(req[r2]) = 403
        /\ req[r2].by # "checkProductLimit"
        /\ "limit" \notin DOMAIN Body(req[r2])

\* C4: once checkProductLimit has let a request through, nothing compares
\* the count with the limit again: the handler inserts unless the body is
\* invalid, names a store of another user or a query fails.  The check and
\* the insert are separate steps.
C4_NoSecondCheck ==
    \A r \in Req :
        (Answered(req[r]) /\ req[r].trail = TrailAllow) =>
            /\ req[r].by = "handler"
            /\ \/ Status(req[r]) = 200 /\ ~IsNull(req[r].inserted)
               \/ /\ Status(req[r]) = 400
                  /\ Body(req[r]).message.template \in {"zod-error", "query-error"}
               \/ /\ Status(req[r]) = 403
                  /\ Body(req[r]).message.template = "no-permission"

\* C4 witness: under the free plan (limit 5) two requests were both let
\* through at 4 products of the same store and both inserted: 6 products.
C4_Witness ==
    /\ \A r \in Req :
          /\ Answered(req[r]) /\ Status(req[r]) = 200
          /\ req[r].store = Some("s1")
          /\ req[r].current = Some(4)
          /\ req[r].inserted = Some("s1")
    /\ \A x \in subscriptions : x.planId = PlanId("gratis") /\ x.status = "active"
    /\ \E p \in plans : p.slug = "gratis" /\ p.maxProducts = Some(5)
    /\ products["s1"] = 6

\* The users without a subscriptions row.
NoRow(userId) == \A x \in subscriptions : x.userId # userId

\* req.subscription as requireActiveSubscription sets it for a user without
\* row, and for the same user holding an active subscription to the free
\* plan.
Implicit(userId) ==
    requireActiveSubscription(Some(userId), Null, getPlanBySlug("gratis"))
Explicit(userId) ==
    requireActiveSubscription(Some(userId),
                              JoinPlan(SubscriptionRow(userId, PlanId("gratis"))),
                              getPlanBySlug("gratis"))

\* What checkProductLimit answers, leaving out the req.subscription it
\* hands on.
Decision(out) ==
    IF out.kind = "next" THEN [kind |-> "next"]
    ELSE [kind |-> "respond", status |-> out.status, body |-> out.body]

Counts == 0..6

\* Resolution for a user without row yields active, free, plan gratis; the
\* gate and the usage snapshot answer as for an active subscription to the
\* free plan; no request of such a user is refused as not subscribed.
NoRowIsFreePlan ==
    /\ \A u \in UserIds :
          NoRow(u) =>
              /\ Implicit(u).kind = "next"
              /\ Implicit(u).subscription.status = "active"
              /\ Implicit(u).subscription.isFree = TRUE
              /\ ~IsNull(Implicit(u).subscription.plan)
              /\ Val(Implicit(u).subscription.plan).slug = "gratis"
              /\ getSubscriptionResponse(Null, getPlanBySlug("gratis")) =
                    Implicit(u).subscription
              /\ Explicit(u).kind = "next"
              /\ \A store \in getStoreByUserId(u), c \in Counts :
                    /\ Decision(checkProductLimit(Implicit(u).subscription, store, c))
                          = Decision(checkProductLimit(Explicit(u).subscription,
                                                       store, c))
                    /\ getPlanUsage(store, Null, getPlanBySlug("gratis"), c, c)
                          = getPlanUsage(store,
                                         JoinPlan(SubscriptionRow(u, PlanId("gratis"))),
                                         getPlanBySlug("gratis"), c, c)
    /\ \A r \in Req :
          LET q == req[r]
          IN  /\ (q.pc \in {"resolved", "allow"} /\ NoRow(Val(q.userId))) =>
                    /\ Val(q.subscription).status = "active"
                    /\ Val(q.subscription).isFree = TRUE
                    /\ ~IsNull(Val(q.subscription).plan)
                    /\ Val(Val(q.subscription).plan).slug = "gratis"
              /\ (Answered(q) /\ q.by = "requireActiveSubscription"
                    /\ Status(q) = 403) => subscriptions # {}

-----------------------------------------------------------------------------
(* Properties of the subscriptions                                         *)

RowsOf(userId) == {x \in subscriptions : x.userId = userId}

\* The rows of a user that no other row of the user was created after.
LatestOf(userId) ==
    {x \in RowsOf(userId) : \A y \in RowsOf(userId) : ~(y.createdAt > x.createdAt)}

\* The answer carries the row x as stored, with the plan it refers to.
CarriesRow(body, x) ==
    /\ "isFree" \notin DOMAIN body
    /\ body.id = x.id /\ body.userId = x.userId
    /\ body.planId = x.planId
    /\ body.status = x.status
    /\ body.cancelAtPeriodEnd = x.cancelAtPeriodEnd
    /\ body.createdAt = x.createdAt
    /\ ~IsNull(body.plan)
    /\ Val(body.plan) \in plans /\ Val(body.plan).id = x.planId

\* C11: when the user's most recent subscription is not active, the
\* resolution (getSubscriptionByUserId, GET /api/subscription) yields that
\* row with its status and its plan and answers 200; the refusal is the
\* status test of the caller requireActiveSubscription on the row it was
\* given.
C11_ResolverDoesNotGate ==
    /\ resolved.status \in {0, 200, 500}
    /\ \A u \in UserIds :
          (RowsOf(u) # {} /\ \A x \in LatestOf(u) : x.status # "active") =>
              /\ \A sub \in getSubscriptionByUserId(u) :
                    /\ ~IsNull(sub)
                    /\ \E x \in LatestOf(u) : CarriesRow(Val(sub), x)
                    /\ requireActiveSubscription(Some(u), sub,
                                                 getPlanBySlug("gratis")).status = 403
              /\ (resolved.status = 200 /\ resolved.userId = u) =>
                    \E x \in LatestOf(u) : CarriesRow(resolved.body, x)

\* C11 witness: GET /api/subscription has answered 200 with the cancelled
\* subscription of a user, on a paid plan.
C11_Witness ==
    /\ resolved.status = 200
    /\ RowsOf(resolved.userId) # {}
    /\ resolved.body.status = "canceled"
    /\ Val(resolved.body.plan).slug = "basico"

\* C12: for a user with at least one row, whatever creations and
\* cancellations came before, getSubscriptionByUserId returns a row of the
\* user that none was created after, with the status it has, never an older
\* row and never no row.
C12_LatestRow ==
    \A u \in UserIds :
        RowsOf(u) # {} =>
            /\ \A sub \in getSubscriptionByUserId(u) :
                  /\ ~IsNull(sub)
                  /\ \E x \in LatestOf(u) : CarriesRow(Val(sub), x)
            /\ (resolved.status = 200 /\ resolved.userId = u) =>
                  \E x \in LatestOf(u) : CarriesRow(resolved.body, x)

\* C12 witness: a user has an older and a newer row, both cancelled, and
\* the newer one was read back.
C12_Witness ==
    /\ resolved.status = 200
    /\ \E x, y \in RowsOf(resolved.userId) :
          /\ x.createdAt < y.createdAt
          /\ x.planId # y.planId
          /\ y.status = "canceled"
          /\ CarriesRow(resolved.body, y)

\* A step that inserts one active row created now and leaves the others.
C13_CreateStep ==
    \E x \in subscriptions' :
        /\ x \notin subscriptions
        /\ \A y \in subscriptions : y.id # x.id
        /\ subscriptions' = subscriptions \cup {x}

\* A step that cancels for user u: every row stays, with its user, plan and
\* creation time; the rows of other users stay as they are; the rows of u,
\* the current one among them, are cancelled with cancelAtPeriodEnd set.
C13_CancelStep(u) ==
    /\ {x.id : x \in subscriptions'} = {x.id : x \in subscriptions}
    /\ Cardinality(subscriptions') = Cardinality(subscriptions)
    /\ \A x \in subscriptions :
          \E y \in subscriptions' :
              /\ y.id = x.id /\ y.userId = x.userId
              /\ y.planId = x.planId /\ y.createdAt = x.createdAt
              /\ x.userId # u => y = x
              /\ (x \in LatestOf(u)) =>
                    y.status = "canceled" /\ y.cancelAtPeriodEnd = TRUE

\* C13: cancelSubscription(u) sets status canceled and cancelAtPeriodEnd on
\* the current subscription of u, deletes no row, keeps the plan reference
\* and leaves the rows of every other user as they are.
C13_CancelFrame ==
    [][subscriptions' # subscriptions =>
          (C13_CreateStep \/ \E u \in UserIds : C13_CancelStep(u))]_vars

\* C13 witness: a user with two rows has them cancelled, on their plans,
\* while the other user's subscription is still active.
C13_Witness ==
    \E u, v \in UserIds :
        /\ u # v
        /\ Cardinality(RowsOf(u)) = 2
        /\ \A x \in RowsOf(u) : x.status = "canceled" /\ x.cancelAtPeriodEnd
        /\ \E x \in RowsOf(u) : x.planId = PlanId("basico")
        /\ \E y \in RowsOf(v) : y.status = "active" /\ ~y.cancelAtPeriodEnd

-----------------------------------------------------------------------------
(* Properties of the usage snapshot                                        *)

\* The fraction p is current / limit * 100.
IsPercentOf(p, current, limit) ==
    /\ p.den > 0
    /\ p.num * limit = current * 100 * p.den

\* One entry of the usage snapshot: the percentage is current / limit * 100
\* under a limit and 0 without.
PercentageRight(entry) ==
    IF IsNull(entry.limit)
    THEN entry.percentage.num = 0
    ELSE IsPercentOf(entry.percentage, entry.current, Val(entry.limit))

\* C14: in the usage snapshot, for products and for orders, percentage is
\* current / limit * 100 for every limit that is not null, above 100 when
\* current is above the limit, and 0 when the limit is null, whatever the
\* count.
C14_Percentage ==
    usage.status = 200 =>
        /\ PercentageRight(usage.body.usage.products)
        /\ PercentageRight(usage.body.usage.orders)
        /\ usage.body.usage.products.current = products[usage.storeId]

\* C14 witness: 10000 products under the limit of 5 are reported as
\* 200000 percent, next to an order under the limit of 10.
C14_Witness ==
    /\ usage.status = 200
    /\ usage.body.usage.products.current = 10000
    /\ usage.body.usage.products.limit = Some(5)
    /\ usage.body.usage.products.percentage.num =
          200000 * usage.body.usage.products.percentage.den
    /\ usage.body.usage.orders.current > 0
    /\ usage.body.usage.orders.limit = Some(10)

\* The calendar month an instant falls in.
MonthOf(t) == t \div MonthTicks

\* C15: the monthly order count is the number of the store's orders
\* created in the current month, from its first instant on, whatever their
\* status: cancelling an order does not take it out of the count.
C15_MonthlyOrders ==
    usage.status = 200 =>
        usage.body.usage.orders.current =
            Cardinality({order \in orders :
                            /\ order.storeId = usage.storeId
                            /\ MonthOf(order.createdAt) = MonthOf(now)})

\* C15 witness: of two orders of the store, the cancelled one created at
\* the first instant of the month is counted and the one created at the
\* last instant of the month before is not.
C15_Witness ==
    /\ usage.status = 200
    /\ usage.body.usage.orders.current = 1
    /\ \E x, y \in orders :
          /\ x.storeId = usage.storeId /\ y.storeId = usage.storeId
          /\ x.createdAt = MonthOf(now) * MonthTicks
          /\ x.status = "cancelled"
          /\ y.createdAt = x.createdAt - 1

-----------------------------------------------------------------------------
(* Properties of the plan catalog                                          *)

\* The listing l gets its answer in this step, after a read that failed.
AnswersFailedRead(l) ==
    /\ listing[l].pc = "reading"
    /\ IsNull(listing[l].read)
    /\ listing'[l] # listing[l]

\* The slugs of a list of plans, in its order.
SlugsOf(list) == [i \in 1..Len(list) |-> list[i].slug]

\* The list is in ascending order of price.
AscendingPrice(list) ==
    \A i, j \in 1..Len(list) :
        i < j => parseFloat(list[i].price) < parseFloat(list[j].price)

C16_Step ==
    \A l \in Listings :
        (AnswersFailedRead(l) /\ IsNull(lastRead)) =>
            /\ listing'[l].pc = "done"
            /\ listing'[l].from = "fallback"
            /\ ~IsNull(listing'[l].response)
            /\ SlugsOf(Val(listing'[l].response)) =
                  <<"gratis", "basico", "profissional", "enterprise">>
            /\ AscendingPrice(Val(listing'[l].response))
            /\ \A i \in 1..4 : Val(listing'[l].response)[i].id =
                                  Val(listing'[l].response)[i].slug

\* C16: a plan listing whose read of the store fails while no list was
\* ever cached is answered, as a normal answer, with the four hardcoded
\* plans gratis, basico, profissional, enterprise in ascending order of
\* price.
C16_FallbackPlans == [][C16_Step]_vars

\* C16 witness: the store holds the seeded plans, no read has succeeded,
\* and a listing was answered with the hardcoded plans.
C16_Witness ==
    /\ plans = plansToInsert
    /\ IsNull(lastRead) /\ IsNull(plansCache)
    /\ \E l \in Listings :
          /\ listing[l].pc = "done" /\ listing[l].from = "fallback"
          /\ listing[l].response = Some(fallbackPlans)

C17_Step ==
    \A l \in Listings :
        /\ (AnswersFailedRead(l) /\ ~IsNull(lastRead)) =>
              /\ listing'[l].pc = "done"
              /\ listing'[l].response = lastRead
              /\ listing'[l].from = "stale"
        /\ (listing'[l] # listing[l] /\ listing'[l].from = "fallback") =>
              IsNull(lastRead)

\* C17: once a read of the plans has succeeded, a listing whose read fails
\* is answered with the list of the last read that succeeded, however old,
\* never with the hardcoded plans; the hardcoded plans are answered only
\* when no read has succeeded.
C17_StaleBeforeFallback == [][C17_Step]_vars

\* C17 witness: a listing was answered from the cache older than
\* CACHE_TTL, with the seeded plans read before, while the store, emptied
\* since, fails.
C17_Witness ==
    /\ now - plansCacheTime >= CACHE_TTL
    /\ ~IsNull(lastRead) /\ Len(Val(lastRead)) = 4
    /\ plans = {}
    /\ \E l \in Listings :
          /\ listing[l].pc = "done" /\ listing[l].from = "stale"
          /\ listing[l].response = lastRead
          /\ listing[l].response # Some(fallbackPlans)

C18_Step ==
    \A l \in Listings :
        /\ (listing[l].pc \in {"idle", "done"} /\ listing'[l] # listing[l]) =>
              IF ~IsNull(plansCache) /\ now - plansCacheTime < CACHE_TTL
              THEN /\ listing'[l].pc = "done"
                   /\ listing'[l].from = "cache"
                   /\ listing'[l].response = plansCache
                   /\ UNCHANGED <<plansCache, plansCacheTime>>
              ELSE /\ listing'[l].pc = "reading"
                   /\ listing'[l].at = now
        /\ (/\ listing[l].pc = "reading" /\ listing'[l] # listing[l]
            /\ ~IsNull(listing[l].read)) =>
              /\ plansCache' = listing[l].read
              /\ plansCacheTime' = listing[l].at
              /\ listing'[l].response = listing[l].read

\* C18: a listing made less than CACHE_TTL (5 minutes) after the time of
\* the cached list answers the cached list without reading the store; one
\* made 5 minutes or more after it reads the store and, when the read
\* succeeds, replaces the cached list by the rows read and its time by the
\* time of the listing.
C18_CacheTtl == [][C18_Step]_vars

\* C18 witness: the cache was replaced by a listing made CACHE_TTL or more
\* after the first one, and a listing after that was answered from it.
C18_Witness ==
    /\ plansCacheTime >= CACHE_TTL
    /\ ~IsNull(plansCache)
    /\ \E l, k \in Listings :
          /\ listing[l].pc = "done" /\ listing[l].from = "cache"
          /\ listing[l].response = plansCache
          /\ listing[k].pc = "done" /\ listing[k].from = "store"

-----------------------------------------------------------------------------
(* Properties of upsertShippingConfig                                      *)

\* No store has two rows in shipping_configs.
AtMostOneConfigRow ==
    \A storeId \in StoreIds :
        Cardinality({c \in shippingConfigs : c.storeId = storeId}) <= 1

\* The call in slot u returns in this step having created the store's row
\* when the store had none, and having updated that row in place when it
\* had one.
UpsertedInPlace(u) ==
    LET configData == upserts[u].configData
        before == {c \in shippingConfigs : c.storeId = configData.storeId}
    IN  /\ upserts'[u].status = 200
        /\ \E c \in shippingConfigs' :
              /\ c.storeId = configData.storeId
              /\ c.freeShippingThreshold = configData.freeShippingThreshold
              /\ c.defaultShippingCost = configData.defaultShippingCost
              /\ \A b \in before : c.id = b.id
        /\ \A c \in shippingConfigs :
              c.storeId # configData.storeId => c \in shippingConfigs'

C19_Step ==
    /\ AtMostOneConfigRow'
    /\ \A u \in Upserts :
          (upserts[u].pc = "read" /\ upserts'[u].pc = "done") =>
              UpsertedInPlace(u)

\* C19 as stated: under every interleaving of upsertShippingConfig calls no
\* store has more than one shipping_configs row, and each call creates the
\* store's row when there is none and updates it in place otherwise.
C19_UpsertOneRow == [][C19_Step]_vars

\* C19 witness: two overlapping calls for a store without a row; one
\* created the row, the other was refused by the unique constraint and its
\* values are not in the table.
C19_Witness ==
    /\ AtMostOneConfigRow
    /\ \E u, k \in Upserts :
          /\ upserts[u].pc = "done" /\ upserts[u].status = 500
          /\ upserts[k].pc = "done" /\ upserts[k].status = 200
          /\ upserts[u].configData.storeId = upserts[k].configData.storeId
          /\ \A c \in shippingConfigs :
                c.storeId = upserts[u].configData.storeId =>
                    c.freeShippingThreshold # upserts[u].configData.freeShippingThreshold

-----------------------------------------------------------------------------
(* Properties of the plan table                                            *)

\* C20 as stated: no step of an operation that an unauthenticated caller
\* or an authenticated merchant invokes changes table plans.
C20_PlansImmutable ==
    [][plans' # plans => setup'.caller \notin Callers]_vars

\* C20 witness: an unauthenticated caller's POST /api/admin/setup-plans has
\* filled the table.
C20_Witness ==
    /\ setup.caller = "anonymous" /\ setup.status = 200
    /\ plans = plansToInsert

\* Table plans holds exactly one row for each of the four slugs.
SeededSlugs == {"gratis", "basico", "profissional", "enterprise"}

OnePlanPerSlug ==
    \A slug \in SeededSlugs :
        Cardinality({p \in plans : p.slug = slug}) = 1

\* C21 as stated: once table plans holds one row for each of the slugs
\* gratis, basico, profissional and enterprise, it does so in every later
\* state, the states in the middle of a re-seeding included.
C21_OnePlanPerSlug == [][OnePlanPerSlug => OnePlanPerSlug']_vars

\* C21 witness: a re-seeding of a seeded database is between its delete and
\* its insert, table plans is empty, and a listing has read the empty
\* table and answered it.
C21_Witness ==
    /\ setup.pc = "deleted"
    /\ plans = {}
    /\ \E l \in Listings :
          /\ listing[l].pc = "done" /\ listing[l].from = "store"
          /\ listing[l].response = Some(<<>>)
    /\ \E k \in Listings :
          /\ listing[k].pc = "done"
          /\ ~IsNull(listing[k].response)
          /\ Len(Val(listing[k].response)) = 4
          /\ Val(listing[k].response)[1].id = PlanId("gratis")

-----------------------------------------------------------------------------
(* Properties of the plan cache under overlapping listings                 *)

C29_Step ==
    /\ plansCacheTime' >= plansCacheTime
    /\ \A l \in Listings :
          (/\ listing[l].pc = "reading" /\ listing'[l] # listing[l]
           /\ ~IsNull(listing[l].read) /\ ~IsNull(plansCache)) =>
              listing[l].at >= plansCacheTime

\* C29 as stated: under every interleaving of overlapping listings the time
\* of the cache never decreases, and the cached list is never replaced by
\* the rows of a read that started before the read whose rows it holds.
C29_CacheMonotone == [][C29_Step]_vars

\* C29 witness: the cache holds the rows of a read made after the seeding,
\* and a read that started earlier, on the empty table, has returned and is
\* about to be stored.
C29_Witness ==
    \E l \in Listings :
        /\ listing[l].pc = "reading"
        /\ listing[l].read = Some(<<>>)
        /\ ~IsNull(plansCache) /\ Len(Val(plansCache)) = 4
        /\ listing[l].at < plansCacheTime
        /\ plans = plansToInsert

C30_Step ==
    \A l \in Listings :
        /\ AnswersFailedRead(l) =>
              /\ plansCache' = plansCache
              /\ plansCacheTime' = plansCacheTime
              /\ listing'[l].from = "fallback" => IsNull(plansCache')
        /\ (/\ listing[l].pc \in {"idle", "done"} /\ listing'[l] # listing[l]
            /\ IsNull(lastRead)) =>
              listing'[l].pc = "reading"

\* C30: a listing whose read fails leaves the cached list and its time as
\* they were, whether it answers the old cache or the hardcoded plans; the
\* hardcoded plans are not stored in the cache, so that as long as no read
\* has succeeded every listing reads the store.
C30_FailedReadFrame == [][C30_Step]_vars

\* C30 witness: a listing was answered with the hardcoded plans, the cache
\* is still empty, and the listing after it has read the store.
C30_Witness ==
    /\ IsNull(plansCache) /\ plansCacheTime = 0
    /\ \E l, k \in Listings :
          /\ listing[l].pc = "done" /\ listing[l].from = "fallback"
          /\ listing[k].pc = "reading" /\ ~IsNull(listing[k].read)
          /\ Len(Val(listing[k].read)) = 4

-----------------------------------------------------------------------------
(* Properties of the answers to a failing store                            *)

\* C22 as stated, for the usage computation: a query that fails is
\* answered as a failure and not as a missing store, so that GET
\* /api/plan-usage answers 404 only to a user who has no store.
C22_FailurePropagated ==
    usage.status = 404 => getStoreByUserId(usage.userId) = {Null}

\* C22 witness: a user who owns stores, one of them with an order, was
\* answered 404 by GET /api/plan-usage.
C22_Witness ==
    /\ usage.status = 404
    /\ usage.userId = "u1"
    /\ Null \notin getStoreByUserId("u1")
    /\ orders # {}

-----------------------------------------------------------------------------
(* Properties of the order-limit guard                                     *)

\* C23: checkOrderLimit, for a plan with maxOrders = L and a store with n
\* orders of the current month, answers 403 with limit L, current n,
\* upgradeRequired and redirectTo exactly when n >= L, and calls next() when
\* n < L or the plan has no maxOrders; POST /api/orders does not run it, so
\* an order can be created whatever the guard would answer.
C23_OrderGuard ==
    /\ orderGuard.status \in {200, 403} =>
          LET plan == orderGuard.plan
              n == Cardinality({order \in orders :
                                  /\ order.storeId = orderGuard.storeId
                                  /\ MonthOf(order.createdAt) = MonthOf(now)})
          IN  IF ~IsNull(plan) /\ ~IsNull(Val(plan).maxOrders)
                 /\ n >= Val(Val(plan).maxOrders)
              THEN /\ orderGuard.status = 403
                   /\ orderGuard.body.limit = Val(Val(plan).maxOrders)
                   /\ orderGuard.body.current = n
                   /\ orderGuard.body.upgradeRequired = TRUE
                   /\ orderGuard.body.redirectTo = RedirectTo
              ELSE orderGuard.status = 200
    /\ \A storeId \in StoreIds :
          Cardinality(CreatedOrders) < MaxOrders => ENABLED CreateOrder(storeId)

\* C23 witness: the store of a user on the free plan (ten orders a month)
\* holds eleven orders of the current month, the last created when the
\* store held ten, and the guard answers 403 with limit 10 and current 11.
C23_Witness ==
    /\ orderGuard.status = 403
    /\ orderGuard.body.limit = 10
    /\ orderGuard.body.current = 11
    /\ \E order \in CreatedOrders :
          order.storeId = orderGuard.storeId /\ order.createdAt = now

-----------------------------------------------------------------------------
(* The zone test as a comparison of numbers                                *)

\* The zone's bounds and the zip, digits only, read as numbers: the zip
\* lies in the range.
NumericHolds(zone, zip) ==
    /\ DigitsToNat(StripNonDigits(zone.zipCodeStart)) <= DigitsToNat(zip)
    /\ DigitsToNat(zip) <= DigitsToNat(StripNonDigits(zone.zipCodeEnd))

\* The zone's bounds and the zip have the same number of digits.
SameLength(zone, zip) ==
    /\ Len(StripNonDigits(zone.zipCodeStart)) = Len(zip)
    /\ Len(StripNonDigits(zone.zipCodeEnd)) = Len(zip)

\* C24: for a zone whose cleaned bounds have as many digits as the cleaned
\* zip code, the test of the matcher, start <= zip <= end on strings, is the
\* containment of the number zip in the range of numbers; and when all the
\* zones of a quote are such, the quote's cost is that of the first zone
\* whose range of numbers holds the zip.
C24_EqualLengthNumeric ==
    (Quoted /\ ~ThresholdReached) =>
        /\ \A i \in 1..Len(quote.zones) :
              SameLength(quote.zones[i], QuoteZip) =>
                  (ZoneHolds(quote.zones[i], QuoteZip) <=>
                      NumericHolds(quote.zones[i], QuoteZip))
        /\ (\A i \in 1..Len(quote.zones) : SameLength(quote.zones[i], QuoteZip)) =>
              \A i \in 1..Len(quote.zones) :
                  (/\ NumericHolds(quote.zones[i], QuoteZip)
                   /\ \A j \in 1..(i - 1) :
                         ~NumericHolds(quote.zones[j], QuoteZip)) =>
                      quote.shipping.cost = parseFloat(quote.zones[i].shippingCost)

\* C24 witness: the zip 01310100 is quoted from the zone 01000000..05999999
\* of equal length, where both tests hold; the other zone of the quote,
\* 0100000..0599999, is one digit shorter and holds the zip as a string and
\* not as a number.
C24_Witness ==
    /\ Quoted /\ ~ThresholdReached
    /\ QuoteZip = Zip_01310100
    /\ Len(quote.zones) = 2
    /\ SameLength(quote.zones[1], QuoteZip)
    /\ ZoneHolds(quote.zones[1], QuoteZip)
    /\ NumericHolds(quote.zones[1], QuoteZip)
    /\ quote.shipping.cost = parseFloat(quote.zones[1].shippingCost)
    /\ ~SameLength(quote.zones[2], QuoteZip)
    /\ ZoneHolds(quote.zones[2], QuoteZip)
    /\ ~NumericHolds(quote.zones[2], QuoteZip)

-----------------------------------------------------------------------------
(* The store that is counted and the store that receives the product       *)

\* C25 as stated: a request that checkProductLimit let through after
\* counting the products of a store inserts its product into that store.
C25_SameStore ==
    \A r \in Req :
        (/\ Answered(req[r]) /\ Status(req[r]) = 200
         /\ ~IsNull(req[r].inserted) /\ ~IsNull(req[r].current)) =>
            req[r].inserted = req[r].store

\* C25 witness: under the free plan (limit 5), checkProductLimit counted the
\* 4 products of store s1 and the product went to store s2 of the same
\* user, which held 5 and now holds 6.
C25_Witness ==
    /\ \E r \in Req :
          /\ Answered(req[r]) /\ Status(req[r]) = 200
          /\ req[r].store = Some("s1")
          /\ req[r].current = Some(4)
          /\ req[r].inserted = Some("s2")
    /\ \E p \in plans : p.slug = "gratis" /\ p.maxProducts = Some(5)
    /\ \A x \in subscriptions : x.planId = PlanId("gratis") /\ x.status = "active"
    /\ products["s1"] = 4
    /\ products["s2"] = 6

-----------------------------------------------------------------------------
(* The limit of a single store under requests handled one at a time        *)

\* C26: the store of a user with one store and a fixed plan with
\* maxProducts = L never holds more than L products when creations and
\* deletions are handled one at a time, and a creation is refused on the
\* limit only at L products: after a deletion at the limit the next
\* creation is let through.
C26_SoloLimit ==
    /\ products[SoloStore] <= SoloLimit
    /\ Denied(req[1]) => Val(req[1].current) = SoloLimit
    /\ (Answered(req[1]) /\ Status(req[1]) = 200) =>
          /\ req[1].inserted = Some(SoloStore)
          /\ Val(req[1].current) < SoloLimit

\* C26 witness: the store was at the limit, a product was deleted, and the
\* creation after it was let through at L - 1 products: the store is at
\* the limit again.
C26_Witness ==
    /\ ops = 2
    /\ Answered(req[1]) /\ Status(req[1]) = 200
    /\ req[1].current = Some(SoloLimit - 1)
    /\ req[1].inserted = Some(SoloStore)
    /\ products[SoloStore] = SoloLimit

-----------------------------------------------------------------------------
(* Product creation after a cancellation                                   *)

\* requireActiveSubscription answers the request r in this step.
ResolvesRequest(r) == req[r].pc = "start" /\ req'[r] # req[r]

\* The request is refused for a subscription that is not active, before
\* checkProductLimit has run.
RejectedInactive(q) ==
    /\ Answered(q) /\ Status(q) = 403
    /\ q.by = "requireActiveSubscription"
    /\ q.trail = <<"start">>
    /\ IsNull(q.current)

C27_Step ==
    \A r \in Req :
        ResolvesRequest(r) =>
            LET rows == {x \in subscriptions : x.userId = Val(req[r].userId)}
                lapsed == rows # {} /\ \A x \in rows : x.status # "active"
                renewed == \E x \in rows :
                              /\ x.status = "active"
                              /\ \A y \in rows : y # x => y.createdAt < x.createdAt
                failed == Answered(req'[r]) /\ Status(req'[r]) = 500
            IN  /\ (lapsed /\ ~failed) => RejectedInactive(req'[r])
                /\ renewed => ~RejectedInactive(req'[r])
                /\ rows = {} => ~RejectedInactive(req'[r])

\* C27: after cancelSubscription every row of the user is canceled, and
\* every product creation of the user is answered 403 by
\* requireActiveSubscription before any limit is checked, whatever the
\* number of products, until a row with status active created later than
\* the others exists; a user without any row is not refused this way.
C27_CanceledIsRejected == [][C27_Step]_vars

\* C27 witness: u1 subscribed, cancelled, and was refused 403 before the
\* limit check with 3 products in a store, under the limit of every plan.
C27_Witness ==
    /\ \E x \in subscriptions : x.userId = "u1"
    /\ \A x \in subscriptions : x.status = "canceled"
    /\ RejectedInactive(req[1])
    /\ products["s1"] = 3

-----------------------------------------------------------------------------
(* The gate without a plan                                                 *)

C28_Step ==
    \A r \in Req :
        /\ (/\ ResolvesRequest(r)
            /\ \A x \in subscriptions : x.userId # Val(req[r].userId)
            /\ \A p \in plans : p.slug # "gratis"
            /\ ~Answered(req'[r])) =>
              /\ req'[r].pc = "resolved"
              /\ IsNull(Val(req'[r].subscription).plan)
        /\ (/\ req[r].pc = "resolved" /\ req'[r] # req[r]
            /\ IsNull(Val(req[r].subscription).plan)
            /\ ~Answered(req'[r])) =>
              /\ req'[r].pc = "allow"
              /\ IsNull(req'[r].current)
        /\ (/\ req[r].pc = "resolved" /\ req'[r] # req[r]
            /\ IsNull(Val(req[r].subscription).plan)
            /\ Answered(req'[r])) =>
              /\ Status(req'[r]) \in {404, 500}
              /\ Status(req'[r]) = 404 => StoresOf(Val(req[r].userId)) = {}

\* C28: for a user without a subscription while table plans has no row
\* with slug gratis, requireActiveSubscription sets a plan that is
\* undefined, and checkProductLimit then counts nothing and calls next():
\* the user's products are created without a limit.
C28_NoPlanNoLimit == [][C28_Step]_vars

\* C28 witness: with table plans empty the first store went from 4 to 7
\* products, above the 5 of the free plan, and the last creation passed
\* the guard without a count.
C28_Witness ==
    /\ plans = {} /\ subscriptions = {}
    /\ products["s1"] = 7
    /\ \E r \in Req :
          /\ Answered(req[r]) /\ Status(req[r]) = 200
          /\ req[r].inserted = Some("s1")
          /\ IsNull(req[r].current)

=============================================================================
